---- MODULE Spec2Model ----
(***************************************************************************)
(* A model of the pan/zoom engine of svelte-svg-viewer                     *)
(* (src/src/lib/internal/SVGViewer.ts, createViewer).                      *)
(*                                                                         *)
(* Numbers are exact rationals <<n, d>> with d > 0 in lowest terms, so     *)
(* that the coordinate arithmetic (ratios of scales, anchored zoom) is     *)
(* computed as the code computes it over the reals.                        *)
(*                                                                         *)
(* The bounding rectangles the code reads with getBoundingClientRect()     *)
(* are those of the rendered document: the frame (the svg element,         *)
(* "viewer") has its own size and page origin, the content (the g          *)
(* element, "container") has its intrinsic size times the rendered scale.  *)
(* The document is re-rendered between two handlers, never inside one, so  *)
(* every operator that reads a rectangle takes the rendered scale `dom`    *)
(* of the handler it runs in.                                              *)
(***************************************************************************)
EXTENDS Integers, Sequences, FiniteSets, TLC

VARIABLES
    position,            \* store: {x, y}, top-left of the content in the frame
    scale,               \* store: number
    lockToBoundaries,    \* store: boolean
    ignoreScale,         \* store: boolean
    actionKey,           \* store: Key | undefined
    viewerRef,           \* store: the frame element is attached
    containerRef,        \* store: the content element is attached
    offset,              \* let offset: Position
    lastCenter,          \* let lastCenter: Position | null   (<<>> is null)
    lastDistance,        \* let lastDistance: number          (<<>> is undefined)
    hasActionKeyPressed, \* let hasActionKeyPressed
    hasPointerDown,      \* let hasPointerDown
    isMoving,            \* store: boolean
    pinchBehavior,       \* store: "zoomOnly" | "zoomDrag"
    minScale,            \* let minScale (prop, default 0.6)
    maxScale,            \* let maxScale (prop, default 1.4)
    frame,               \* rendered frame rectangle: [x, y, w, h] in page pixels
    content,             \* intrinsic (unscaled) size of the content: [w, h]
    props,               \* createViewer(props): supplied stores and defaults
    drag,                \* history of the mouse drag in progress (see Drag below)
    pinch,               \* history of the pinch in progress (see Pinch below)
    resized,             \* elements whose size changed, not yet notified
    budget               \* number of handler runs still explored

vars == <<position, scale, lockToBoundaries, ignoreScale, actionKey, viewerRef,
          containerRef, offset, lastCenter, lastDistance, hasActionKeyPressed,
          hasPointerDown, isMoving, pinchBehavior, minScale, maxScale, frame,
          content, props, resized, drag, pinch,
          budget>>

gesture == <<offset, lastCenter, lastDistance, hasPointerDown, isMoving>>
config == <<pinchBehavior, minScale, maxScale, frame, content, props, resized>>
refs == <<viewerRef, containerRef>>

----------------------------------------------------------------------------
(* Exact rational arithmetic.                                              *)

RECURSIVE GCD(_, _)
GCD(a, b) == IF b = 0 THEN a ELSE GCD(b, a % b)

IAbs(n) == IF n < 0 THEN -n ELSE n

Rat(n, d) ==
    LET s == IF d < 0 THEN -1 ELSE 1
        g == GCD(IAbs(n), IAbs(d))
    IN  <<(s * n) \div g, (s * d) \div g>>

Int2R(n) == <<n, 1>>
Zero == <<0, 1>>
One == <<1, 1>>

RAdd(a, b) ==
    LET g == GCD(a[2], b[2])
    IN  Rat(a[1] * (b[2] \div g) + b[1] * (a[2] \div g), (a[2] \div g) * b[2])
RNeg(a) == <<-a[1], a[2]>>
RSub(a, b) == RAdd(a, RNeg(b))
RMul(a, b) ==
    LET p == Rat(a[1], b[2])
        q == Rat(b[1], a[2])
    IN  <<p[1] * q[1], p[2] * q[2]>>
RDiv(a, b) == RMul(a, Rat(b[2], b[1]))
RLt(a, b) == RSub(a, b)[1] < 0
RLe(a, b) == RSub(a, b)[1] <= 0
RGt(a, b) == RLt(b, a)
RGe(a, b) == RLe(b, a)
RMin(a, b) == IF RLt(b, a) THEN b ELSE a
RMax(a, b) == IF RGt(b, a) THEN b ELSE a
RAbs(a) == <<IAbs(a[1]), a[2]>>
RHalf(a) == RDiv(a, <<2, 1>>)

Pos(x, y) == [x |-> x, y |-> y]
IPos(x, y) == [x |-> Int2R(x), y |-> Int2R(y)]

----------------------------------------------------------------------------
(* defaultProps                                                            *)

DefaultMinScale == <<3, 5>>
DefaultMaxScale == <<7, 5>>
scaleMouseSensitivity == <<11, 10>>
scaleTouchpadSensitivity == <<53, 50>>
NoKey == "undefined"

----------------------------------------------------------------------------
(* The stores and their change interceptors.  A view is the pair of the    *)
(* position and scale stores, [position |-> .., scale |-> ..], threaded    *)
(* through the operators of one handler run.                               *)

View(p, s) == [position |-> p, scale |-> s]
Here == View(position, scale)

onPositionChange(curr, next) == next

onLockChange(curr, next) == next

onScaleChange(curr, next) ==
    IF ignoreScale THEN next
    ELSE IF RGt(next, maxScale) THEN curr
    ELSE IF RLt(next, minScale) THEN curr
    ELSE next

\* overridable(store, onChange).set(next): the store takes the value that
\* onChange({ curr, next }) returned
overridableSet(accepted) == accepted

positionSet(v, p) ==
    [v EXCEPT !.position = overridableSet(onPositionChange(v.position, p))]
scaleSet(v, s) ==
    [v EXCEPT !.scale = overridableSet(onScaleChange(v.scale, s))]

attached == viewerRef /\ containerRef

\* getBoundingClientRect() of the content element, rendered at scale dom
containerRect(dom) ==
    [width |-> RMul(Int2R(content.w), dom), height |-> RMul(Int2R(content.h), dom)]
\* getBoundingClientRect() of the frame element
viewerRect ==
    [x |-> frame.x, y |-> frame.y,
     width |-> Int2R(frame.w), height |-> Int2R(frame.h)]

clampAxis_NoLower(p, containerSize, viewerSize) == RMin(Zero, p)

\* Math.min(0, Math.max(p, -(containerSize - viewerSize)))
clampAxis(p, containerSize, viewerSize) ==
    RMin(Zero, RMax(p, RNeg(RSub(containerSize, viewerSize))))

----------------------------------------------------------------------------
(* methods                                                                 *)

panTo_Unguarded(v, x, y, dom) ==
    LET c == containerRect(dom)
        nx == IF lockToBoundaries
              THEN clampAxis(x, c.width, viewerRect.width) ELSE x
        ny == IF lockToBoundaries
              THEN clampAxis(y, c.height, viewerRect.height) ELSE y
    IN  positionSet(v, Pos(nx, ny))

panTo(v, x, y, dom) ==
    IF ~attached THEN v
    ELSE LET c == containerRect(dom)
             nx == IF lockToBoundaries
                   THEN clampAxis(x, c.width, viewerRect.width) ELSE x
             ny == IF lockToBoundaries
                   THEN clampAxis(y, c.height, viewerRect.height) ELSE y
         IN  positionSet(v, Pos(nx, ny))

pan_FromOrigin(v, x, y, dom) ==
    IF ~attached THEN v
    ELSE LET c == containerRect(dom)
             nx == IF lockToBoundaries
                   THEN clampAxis(x, c.width, viewerRect.width) ELSE x
             ny == IF lockToBoundaries
                   THEN clampAxis(y, c.height, viewerRect.height) ELSE y
         IN  positionSet(v, Pos(nx, ny))

pan(v, x, y, dom) ==
    IF ~attached THEN v
    ELSE LET c == containerRect(dom)
             px == RAdd(v.position.x, x)
             py == RAdd(v.position.y, y)
             nx == IF lockToBoundaries
                   THEN clampAxis(px, c.width, viewerRect.width) ELSE px
             ny == IF lockToBoundaries
                   THEN clampAxis(py, c.height, viewerRect.height) ELSE py
         IN  positionSet(v, Pos(nx, ny))

\* [scaleX, scaleY].reduce((prev, curr) =>
\*     Math.abs(curr - 1) < Math.abs(prev - 1) ? curr : prev)
closerToOne(scaleX, scaleY) ==
    IF RLt(RAbs(RSub(scaleY, One)), RAbs(RSub(scaleX, One)))
    THEN scaleY ELSE scaleX

fitScale_Stale(v, dom) ==
    LET c == containerRect(dom)
        scaleY == RDiv(viewerRect.height, c.height)
        scaleX == RDiv(viewerRect.width, c.width)
    IN  IF lockToBoundaries THEN closerToOne(scaleX, scaleY)
        ELSE RHalf(RAdd(scaleY, scaleX))

fitScale(v, dom) ==
    LET c == containerRect(dom)
        initialContainerHeight == RDiv(c.height, v.scale)
        initialContainerWidth == RDiv(c.width, v.scale)
        scaleY == RDiv(viewerRect.height, initialContainerHeight)
        scaleX == RDiv(viewerRect.width, initialContainerWidth)
    IN  IF lockToBoundaries THEN closerToOne(scaleX, scaleY)
        ELSE RHalf(RAdd(scaleY, scaleX))

fitToViewer_Unclamped(v, forceScale, dom) ==
    IF ~attached THEN v
    ELSE positionSet(scaleSet(v, fitScale(v, dom)), Pos(Zero, Zero))

fitToViewer(v, forceScale, dom) ==
    IF ~attached THEN v
    ELSE LET f == fitScale(v, dom)
             newScale == IF forceScale THEN f
                         ELSE RMax(minScale, RMin(maxScale, f))
         IN  positionSet(scaleSet(v, newScale), Pos(Zero, Zero))

zoomScale_NoClamp(requested) == requested

\* newScale of zoom after its own clamp, skipped under ignoreScale
zoomScale(requested) ==
    IF ignoreScale THEN requested
    ELSE LET a == IF RGt(requested, maxScale) THEN maxScale ELSE requested
         IN  IF RLt(a, minScale) THEN minScale ELSE a

zoomFallsBack_DownOnly(v, requested, dom) ==
    LET c == containerRect(dom)
        scaleDiff == RDiv(zoomScale(requested), v.scale)
    IN  /\ lockToBoundaries
        /\ RLt(requested, v.scale)
        /\ \/ RLt(RMul(c.width, scaleDiff), viewerRect.width)
           \/ RLt(RMul(c.height, scaleDiff), viewerRect.height)

\* the test of zoom that replaces the request by fitToViewer()
zoomFallsBack(v, requested, dom) ==
    LET c == containerRect(dom)
        scaleDiff == RDiv(zoomScale(requested), v.scale)
    IN  /\ lockToBoundaries
        /\ \/ RLt(RMul(c.width, scaleDiff), viewerRect.width)
           \/ RLt(RMul(c.height, scaleDiff), viewerRect.height)

zoomPosition_Unanchored(p, a, scaleDiff) == RMul(scaleDiff, RSub(p, a))

\* scaleDiff * ($position.x - x) + x
zoomPosition(p, a, scaleDiff) == RAdd(RMul(scaleDiff, RSub(p, a)), a)

zoom(v, x, y, requested, dom) ==
    IF ~attached THEN v
    ELSE LET c == containerRect(dom)
             oldScale == v.scale
             newScale == zoomScale(requested)
             scaleDiff == RDiv(newScale, oldScale)
             scaledContainerWidth == RMul(c.width, scaleDiff)
             scaledContainerHeight == RMul(c.height, scaleDiff)
             newX == zoomPosition(v.position.x, x, scaleDiff)
             newY == zoomPosition(v.position.y, y, scaleDiff)
             lx == IF lockToBoundaries
                   THEN clampAxis(newX, scaledContainerWidth, viewerRect.width)
                   ELSE newX
             ly == IF lockToBoundaries
                   THEN clampAxis(newY, scaledContainerHeight, viewerRect.height)
                   ELSE newY
         IN  IF zoomFallsBack(v, requested, dom)
             THEN fitToViewer(v, FALSE, dom)
             ELSE scaleSet(positionSet(v, Pos(lx, ly)), newScale)

zoomOnCenter_Unclamped(v, requested, dom) ==
    IF ~attached THEN v
    ELSE zoom(v, RHalf(viewerRect.width), RHalf(viewerRect.height),
              requested, dom)

zoomOnCenter(v, requested, dom) ==
    IF ~attached THEN v
    ELSE LET a == IF RGt(requested, maxScale) THEN maxScale ELSE requested
             newScale == IF RLt(a, minScale) THEN minScale ELSE a
         IN  zoom(v, RHalf(viewerRect.width), RHalf(viewerRect.height),
                  newScale, dom)

fitSelection(v, x, y, selectionWidth, selectionHeight) ==
    IF ~attached THEN v
    ELSE LET scaleX == RDiv(viewerRect.width, selectionWidth)
             scaleY == RDiv(viewerRect.height, selectionHeight)
             newScale == RMin(scaleX, scaleY)
         IN  scaleSet(positionSet(v, Pos(RMul(RNeg(x), newScale),
                                         RMul(RNeg(y), newScale))),
                      newScale)

center_NoHalf(v, dom) ==
    IF ~attached THEN v
    ELSE LET c == containerRect(dom)
         IN  positionSet(v, Pos(RNeg(RSub(c.width, viewerRect.width)),
                                RNeg(RSub(c.height, viewerRect.height))))

center(v, dom) ==
    IF ~attached THEN v
    ELSE LET c == containerRect(dom)
         IN  positionSet(v,
                 Pos(RDiv(RNeg(RSub(c.width, viewerRect.width)), <<2, 1>>),
                     RDiv(RNeg(RSub(c.height, viewerRect.height)), <<2, 1>>)))

----------------------------------------------------------------------------
(* Geometry of events.  A touch or mouse point is its client coordinates.  *)

getMousePosition(pt) ==
    Pos(RSub(Int2R(pt.x), Int2R(viewerRect.x)),
        RSub(Int2R(pt.y), Int2R(viewerRect.y)))

getTouchPosition(touches) == getMousePosition(touches[1])

getPinchCenter(touch1Pos, touch2Pos) ==
    Pos(RHalf(Int2R(touch1Pos.x + touch2Pos.x)),
        RHalf(Int2R(touch1Pos.y + touch2Pos.y)))

SquaredDistance(touch1Pos, touch2Pos) ==
    (touch2Pos.x - touch1Pos.x) * (touch2Pos.x - touch1Pos.x)
    + (touch2Pos.y - touch1Pos.y) * (touch2Pos.y - touch1Pos.y)

\* Math.sqrt on the squares the touch inputs produce
ISqrt(n) == CHOOSE r \in 0..n : r * r = n

getPinchDistance(touch1Pos, touch2Pos) ==
    Int2R(ISqrt(SquaredDistance(touch1Pos, touch2Pos)))

isPinchGesture(touches) == Len(touches) > 1

----------------------------------------------------------------------------
(* One handler run.                                                        *)

Tick == budget > 0 /\ budget' = budget - 1

Write(v) == position' = v.position /\ scale' = v.scale

stores == <<lockToBoundaries, ignoreScale, actionKey>>

----------------------------------------------------------------------------
(* History of the mouse drag in progress, kept beside the program state to *)
(* state properties of a whole drag.  It is <<>> when no drag is under way *)
(* and otherwise records the frame-relative point p0 and the position      *)
(* `start` of the pointerDown that armed it, the point p1 of the latest    *)
(* pointerMove, and whether the latest handler run was that pointerDown    *)
(* ("down"), a pointerMove ("move") or another call made meanwhile         *)
(* ("other").  No operator of the program reads it.                        *)

NoDrag == <<>>
DragEnds == drag' = NoDrag
DragInterleaved ==
    drag' = IF drag = NoDrag THEN NoDrag ELSE [drag EXCEPT !.last = "other"]

----------------------------------------------------------------------------
(* History of the pinch in progress, kept beside the program state to      *)
(* state properties of a whole pinch gesture.  It is "none" when fewer     *)
(* than two touches are down, "started" after the touchStart that brings   *)
(* a second touch down and "moved" once a two-finger touchMove of that     *)
(* gesture was delivered; the gesture lasts until a touchEnd leaves fewer  *)
(* than two touches.  No operator of the program reads it.                 *)

PinchStarts(touches) ==
    pinch' = IF ~isPinchGesture(touches) THEN "none"
             ELSE IF pinch = "none" THEN "started" ELSE pinch
PinchMoves(touches) ==
    pinch' = IF isPinchGesture(touches) /\ pinch # "none" THEN "moved"
             ELSE pinch
PinchEnds(touches) ==
    pinch' = IF isPinchGesture(touches) THEN pinch ELSE "none"

----------------------------------------------------------------------------
(* listeners                                                               *)

dragOffset_Absolute(newOffset, p) == newOffset

\* offset = { x: newOffset.x - $position.x, y: newOffset.y - $position.y }
dragOffset(newOffset, p) ==
    Pos(RSub(newOffset.x, p.x), RSub(newOffset.y, p.y))

onMouseDown_Unguarded(pt) ==
    /\ Tick
    /\ IF ~hasActionKeyPressed
       THEN UNCHANGED <<offset, hasPointerDown>> /\ DragEnds
       ELSE LET newOffset == getMousePosition(pt)
            IN  /\ offset' = dragOffset(newOffset, position)
                /\ hasPointerDown' = TRUE
                /\ drag' = [p0 |-> newOffset, start |-> position,
                            p1 |-> newOffset, last |-> "down"]
    /\ UNCHANGED <<position, scale, stores, refs, lastCenter, lastDistance,
                   hasActionKeyPressed, isMoving, config, pinch>>

onMouseDown(pt) ==
    /\ Tick
    /\ IF ~attached \/ ~hasActionKeyPressed
       THEN UNCHANGED <<offset, hasPointerDown>> /\ DragEnds
       ELSE LET newOffset == getMousePosition(pt)
            IN  /\ offset' = dragOffset(newOffset, position)
                /\ hasPointerDown' = TRUE
                /\ drag' = [p0 |-> newOffset, start |-> position,
                            p1 |-> newOffset, last |-> "down"]
    /\ UNCHANGED <<position, scale, stores, refs, lastCenter, lastDistance,
                   hasActionKeyPressed, isMoving, config, pinch>>

onMouseMove(pt) ==
    /\ Tick
    /\ IF ~attached \/ ~hasActionKeyPressed \/ (~hasPointerDown /\ ~isMoving)
       THEN UNCHANGED <<position, scale, hasPointerDown, isMoving>> /\ DragEnds
       ELSE LET newPosition == getMousePosition(pt)
                newX == RSub(newPosition.x, offset.x)
                newY == RSub(newPosition.y, offset.y)
            IN  /\ isMoving' = TRUE
                /\ hasPointerDown' = IF ~isMoving THEN FALSE ELSE hasPointerDown
                /\ Write(panTo(Here, newX, newY, scale))
                /\ drag' = IF drag = NoDrag THEN NoDrag
                           ELSE [drag EXCEPT !.p1 = newPosition, !.last = "move"]
    /\ UNCHANGED <<stores, refs, offset, lastCenter, lastDistance,
                   hasActionKeyPressed, config, pinch>>

onMouseUp_KeepsMoving ==
    /\ Tick
    /\ IF ~attached
       THEN UNCHANGED <<isMoving, hasPointerDown, offset>>
       ELSE /\ UNCHANGED isMoving
            /\ hasPointerDown' = FALSE
            /\ offset' = Pos(Zero, Zero)
    /\ DragEnds
    /\ UNCHANGED <<position, scale, stores, refs, lastCenter, lastDistance,
                   hasActionKeyPressed, config, pinch>>

onMouseUp ==
    /\ Tick
    /\ IF ~attached
       THEN UNCHANGED <<isMoving, hasPointerDown, offset>>
       ELSE /\ isMoving' = FALSE
            /\ hasPointerDown' = FALSE
            /\ offset' = Pos(Zero, Zero)
    /\ DragEnds
    /\ UNCHANGED <<position, scale, stores, refs, lastCenter, lastDistance,
                   hasActionKeyPressed, config, pinch>>

\* newScale of onWheel for event.deltaY, event.deltaX
wheelScale(oldScale, deltaY, deltaX) ==
    LET delta == IF deltaY # 0 THEN deltaY ELSE deltaX
        scaleStep == IF IAbs(delta) > 50 THEN scaleMouseSensitivity
                     ELSE scaleTouchpadSensitivity
        scaleDelta == IF delta < 0 THEN RDiv(One, scaleStep) ELSE scaleStep
    IN  RDiv(oldScale, scaleDelta)

onWheel_Ungated(pt, deltaY, deltaX) ==
    /\ Tick
    /\ IF ~attached
       THEN UNCHANGED <<position, scale>>
       ELSE LET cursorPos == getMousePosition(pt)
            IN  Write(zoom(Here, cursorPos.x, cursorPos.y,
                           wheelScale(scale, deltaY, deltaX), scale))
    /\ DragInterleaved
    /\ UNCHANGED <<stores, refs, gesture, hasActionKeyPressed, config, pinch>>

onWheel_RebasesDrag(pt, deltaY, deltaX) ==
    /\ Tick
    /\ IF ~attached \/ ~hasActionKeyPressed
       THEN UNCHANGED <<position, scale, offset>>
       ELSE LET cursorPos == getMousePosition(pt)
            IN  /\ Write(zoom(Here, cursorPos.x, cursorPos.y,
                              wheelScale(scale, deltaY, deltaX), scale))
                /\ offset' = Pos(RSub(offset.x, RSub(position'.x, position.x)),
                                 RSub(offset.y, RSub(position'.y, position.y)))
    /\ DragInterleaved
    /\ UNCHANGED <<stores, refs, lastCenter, lastDistance, hasPointerDown,
                   isMoving, hasActionKeyPressed, config, pinch>>

onWheel(pt, deltaY, deltaX) ==
    /\ Tick
    /\ IF ~attached \/ ~hasActionKeyPressed
       THEN UNCHANGED <<position, scale>>
       ELSE LET cursorPos == getMousePosition(pt)
            IN  Write(zoom(Here, cursorPos.x, cursorPos.y,
                           wheelScale(scale, deltaY, deltaX), scale))
    /\ DragInterleaved
    /\ UNCHANGED <<stores, refs, gesture, hasActionKeyPressed, config, pinch>>

onTouchStart(touches) ==
    /\ Tick
    /\ IF ~attached
       THEN UNCHANGED <<isMoving, lastDistance, offset, hasPointerDown>>
       ELSE IF isPinchGesture(touches)
       THEN /\ isMoving' = FALSE
            /\ lastDistance' = getPinchDistance(touches[1], touches[2])
            /\ offset' =
                 IF pinchBehavior = "zoomDrag"
                 THEN LET newOffset == getPinchCenter(touches[1], touches[2])
                      IN  dragOffset(newOffset, position)
                 ELSE offset
            /\ UNCHANGED hasPointerDown
       ELSE LET newOffset == getTouchPosition(touches)
            IN  /\ offset' = dragOffset(newOffset, position)
                /\ hasPointerDown' = TRUE
                /\ UNCHANGED <<isMoving, lastDistance>>
    /\ DragEnds
    /\ PinchStarts(touches)
    /\ UNCHANGED <<position, scale, stores, refs, lastCenter,
                   hasActionKeyPressed, config>>

\* the view after the pinch transform of onPinchMove is applied
pinchApply(v, newCenter, newScale, scaleDiff, dom) ==
    IF pinchBehavior = "zoomDrag"
    THEN LET newX == RSub(newCenter.x, lastCenter.x)
             newY == RSub(newCenter.y, lastCenter.y)
         IN  pan(zoom(v, newCenter.x, newCenter.y, newScale, dom),
                 RMul(newX, scaleDiff), RMul(newY, scaleDiff), dom)
    ELSE IF pinchBehavior = "zoomOnly"
    THEN zoom(v, newCenter.x, newCenter.y, newScale, dom)
    ELSE v

pinchAccepted_NoUpper(newScale, scaleDiff, dom) ==
    LET c == containerRect(dom)
    IN  /\ RGe(newScale, minScale)
        /\ RGt(RMul(c.width, scaleDiff), viewerRect.width)
        /\ RGt(RMul(c.height, scaleDiff), viewerRect.height)

pinchAccepted_NoLimits(newScale, scaleDiff, dom) ==
    LET c == containerRect(dom)
    IN  /\ RGt(RMul(c.width, scaleDiff), viewerRect.width)
        /\ RGt(RMul(c.height, scaleDiff), viewerRect.height)

pinchAccepted_NoCover(newScale, scaleDiff, dom) ==
    /\ RLe(newScale, maxScale)
    /\ RGe(newScale, minScale)

\* the limit check and the cover-the-frame check of onPinchMove
pinchAccepted(newScale, scaleDiff, dom) ==
    LET c == containerRect(dom)
        initialContainerHeight == RMul(c.height, scaleDiff)
        initialContainerWidth == RMul(c.width, scaleDiff)
    IN  /\ RLe(newScale, maxScale)
        /\ RGe(newScale, minScale)
        /\ RGt(initialContainerWidth, viewerRect.width)
        /\ RGt(initialContainerHeight, viewerRect.height)

onPinchMove_AdvancesOnDrop(touches) ==
    IF isMoving
    THEN UNCHANGED <<position, scale, lastCenter, lastDistance>>
    ELSE LET newCenter == getPinchCenter(touches[1], touches[2])
             distance == getPinchDistance(touches[1], touches[2])
             primed == IF lastDistance = <<>> \/ lastDistance = Zero
                       THEN distance ELSE lastDistance
             newScale == RMul(scale, RDiv(distance, primed))
             scaleDiff == RDiv(newScale, scale)
         IN  IF lastCenter = <<>>
             THEN /\ lastCenter' = newCenter
                  /\ UNCHANGED <<position, scale, lastDistance>>
             ELSE IF scale = newScale
             THEN /\ lastDistance' = primed
                  /\ UNCHANGED <<position, scale, lastCenter>>
             ELSE IF pinchAccepted(newScale, scaleDiff, scale)
             THEN /\ Write(pinchApply(Here, newCenter, newScale, scaleDiff, scale))
                  /\ lastDistance' = distance
                  /\ lastCenter' = newCenter
             ELSE /\ lastDistance' = distance
                  /\ lastCenter' = newCenter
                  /\ UNCHANGED <<position, scale>>

onPinchMove(touches) ==
    IF isMoving
    THEN UNCHANGED <<position, scale, lastCenter, lastDistance>>
    ELSE LET newCenter == getPinchCenter(touches[1], touches[2])
             distance == getPinchDistance(touches[1], touches[2])
             primed == IF lastDistance = <<>> \/ lastDistance = Zero
                       THEN distance ELSE lastDistance
             newScale == RMul(scale, RDiv(distance, primed))
             scaleDiff == RDiv(newScale, scale)
         IN  IF lastCenter = <<>>
             THEN /\ lastCenter' = newCenter
                  /\ UNCHANGED <<position, scale, lastDistance>>
             ELSE IF scale = newScale
             THEN /\ lastDistance' = primed
                  /\ UNCHANGED <<position, scale, lastCenter>>
             ELSE IF pinchAccepted(newScale, scaleDiff, scale)
             THEN /\ Write(pinchApply(Here, newCenter, newScale, scaleDiff, scale))
                  /\ lastDistance' = distance
                  /\ lastCenter' = newCenter
             ELSE /\ lastDistance' = primed
                  /\ UNCHANGED <<position, scale, lastCenter>>

onTouchMove_Unarmed(touches) ==
    /\ Tick
    /\ IF ~attached
       THEN UNCHANGED <<position, scale, gesture>>
       ELSE IF isPinchGesture(touches)
       THEN /\ onPinchMove(touches)
            /\ UNCHANGED <<offset, hasPointerDown, isMoving>>
       ELSE LET newPosition == getTouchPosition(touches)
                newX == RSub(newPosition.x, offset.x)
                newY == RSub(newPosition.y, offset.y)
            IN  /\ isMoving' = TRUE
                /\ hasPointerDown' = IF ~isMoving THEN FALSE ELSE hasPointerDown
                /\ Write(panTo(Here, newX, newY, scale))
                /\ UNCHANGED <<offset, lastCenter, lastDistance>>
    /\ DragEnds
    /\ PinchMoves(touches)
    /\ UNCHANGED <<stores, refs, hasActionKeyPressed, config>>

onTouchMove(touches) ==
    /\ Tick
    /\ IF ~attached
       THEN UNCHANGED <<position, scale, gesture>>
       ELSE IF isPinchGesture(touches)
       THEN /\ onPinchMove(touches)
            /\ UNCHANGED <<offset, hasPointerDown, isMoving>>
       ELSE IF ~isMoving /\ ~hasPointerDown
       THEN UNCHANGED <<position, scale, gesture>>
       ELSE LET newPosition == getTouchPosition(touches)
                newX == RSub(newPosition.x, offset.x)
                newY == RSub(newPosition.y, offset.y)
            IN  /\ isMoving' = TRUE
                /\ hasPointerDown' = IF ~isMoving THEN FALSE ELSE hasPointerDown
                /\ Write(panTo(Here, newX, newY, scale))
                /\ UNCHANGED <<offset, lastCenter, lastDistance>>
    /\ DragEnds
    /\ PinchMoves(touches)
    /\ UNCHANGED <<stores, refs, hasActionKeyPressed, config>>

onTouchEnd(touches) ==
    /\ Tick
    /\ IF ~attached
       THEN UNCHANGED gesture
       ELSE /\ isMoving' = FALSE
            /\ hasPointerDown' = FALSE
            /\ offset' = Pos(Zero, Zero)
            /\ IF isPinchGesture(touches)
               THEN lastDistance' = Zero /\ lastCenter' = <<>>
               ELSE UNCHANGED <<lastDistance, lastCenter>>
    /\ DragEnds
    /\ PinchEnds(touches)
    /\ UNCHANGED <<position, scale, stores, refs, hasActionKeyPressed, config>>

----------------------------------------------------------------------------
(* The earlier variant of the engine (src/unnamed/part_000).  Its          *)
(* pinchBehavior is a plain prop value instead of a store; its mouse,      *)
(* wheel and key listeners, onTouchEnd and its methods have the same text  *)
(* as the ones above, and its touch listeners differ as follows.           *)

onTouchStart_part000(touches) ==
    /\ Tick
    /\ IF ~attached
       THEN UNCHANGED <<isMoving, lastDistance, offset, hasPointerDown>>
       ELSE IF isPinchGesture(touches)
       THEN /\ isMoving' = FALSE
            /\ lastDistance' = getPinchDistance(touches[1], touches[2])
            /\ UNCHANGED <<offset, hasPointerDown>>
       ELSE LET newOffset == getTouchPosition(touches)
            IN  /\ offset' = dragOffset(newOffset, position)
                /\ hasPointerDown' = TRUE
                /\ UNCHANGED <<isMoving, lastDistance>>
    /\ DragEnds
    /\ PinchStarts(touches)
    /\ UNCHANGED <<position, scale, stores, refs, lastCenter,
                   hasActionKeyPressed, config>>

\* $scale * newScale <= maxScale && $scale * newScale >= minScale && ...
pinchAccepted_part000(newScale, scaleDiff, dom) ==
    LET c == containerRect(dom)
    IN  /\ RLe(RMul(scale, newScale), maxScale)
        /\ RGe(RMul(scale, newScale), minScale)
        /\ RGt(RMul(c.width, scaleDiff), viewerRect.width)
        /\ RGt(RMul(c.height, scaleDiff), viewerRect.height)

\* the view after the pinch transform of this variant is applied
pinchApply_part000(v, newCenter, newScale, scaleDiff, dom) ==
    IF pinchBehavior = "zoomDrag"
    THEN LET c == containerRect(dom)
             pointTo == Pos(RDiv(RSub(newCenter.x, v.position.x), v.scale),
                            RDiv(RSub(newCenter.y, v.position.y), v.scale))
             newX == RMul(RSub(newCenter.x, pointTo.x), newScale)
             newY == RMul(RSub(newCenter.y, pointTo.y), newScale)
             lx == IF lockToBoundaries
                   THEN clampAxis(newX, RMul(c.width, scaleDiff),
                                  viewerRect.width)
                   ELSE newX
             ly == IF lockToBoundaries
                   THEN clampAxis(newY, RMul(c.height, scaleDiff),
                                  viewerRect.height)
                   ELSE newY
         IN  positionSet(scaleSet(v, newScale), Pos(lx, ly))
    ELSE IF pinchBehavior = "zoomOnly"
    THEN zoom(v, newCenter.x, newCenter.y, newScale, dom)
    ELSE v

onPinchMove_part000(touches) ==
    IF isMoving
    THEN UNCHANGED <<position, scale, lastCenter, lastDistance>>
    ELSE LET newCenter == getPinchCenter(touches[1], touches[2])
             distance == getPinchDistance(touches[1], touches[2])
             primed == IF lastDistance = <<>> \/ lastDistance = Zero
                       THEN distance ELSE lastDistance
             newScale == RMul(scale, RDiv(distance, primed))
             scaleDiff == RDiv(newScale, scale)
         IN  IF lastCenter = <<>>
             THEN /\ lastCenter' = newCenter
                  /\ UNCHANGED <<position, scale, lastDistance>>
             ELSE IF scale = newScale
             THEN /\ lastDistance' = primed
                  /\ UNCHANGED <<position, scale, lastCenter>>
             ELSE IF pinchAccepted_part000(newScale, scaleDiff, scale)
             THEN /\ Write(pinchApply_part000(Here, newCenter, newScale,
                                              scaleDiff, scale))
                  /\ lastDistance' = distance
                  /\ lastCenter' = newCenter
             ELSE /\ lastDistance' = primed
                  /\ UNCHANGED <<position, scale, lastCenter>>

onTouchMove_part000(touches) ==
    /\ Tick
    /\ IF ~attached
       THEN UNCHANGED <<position, scale, gesture>>
       ELSE IF isPinchGesture(touches)
       THEN /\ onPinchMove_part000(touches)
            /\ UNCHANGED <<offset, hasPointerDown, isMoving>>
       ELSE IF ~isMoving /\ ~hasPointerDown
       THEN UNCHANGED <<position, scale, gesture>>
       ELSE LET newPosition == getTouchPosition(touches)
                newX == RSub(newPosition.x, offset.x)
                newY == RSub(newPosition.y, offset.y)
            IN  /\ isMoving' = TRUE
                /\ hasPointerDown' = IF ~isMoving THEN FALSE ELSE hasPointerDown
                /\ Write(panTo(Here, newX, newY, scale))
                /\ UNCHANGED <<offset, lastCenter, lastDistance>>
    /\ DragEnds
    /\ PinchMoves(touches)
    /\ UNCHANGED <<stores, refs, hasActionKeyPressed, config>>

----------------------------------------------------------------------------
(* key listeners                                                           *)

onKeyDown_Repeats(key, repeat) ==
    /\ Tick
    /\ hasActionKeyPressed' =
         IF hasActionKeyPressed THEN hasActionKeyPressed
         ELSE IF actionKey = key THEN TRUE ELSE hasActionKeyPressed
    /\ DragEnds
    /\ UNCHANGED <<position, scale, stores, refs, gesture, config, pinch>>

onKeyDown(key, repeat) ==
    /\ Tick
    /\ hasActionKeyPressed' =
         IF repeat \/ hasActionKeyPressed THEN hasActionKeyPressed
         ELSE IF actionKey = key THEN TRUE ELSE hasActionKeyPressed
    /\ DragEnds
    /\ UNCHANGED <<position, scale, stores, refs, gesture, config, pinch>>

onKeyUp(key) ==
    /\ Tick
    /\ hasActionKeyPressed' =
         IF ~hasActionKeyPressed THEN hasActionKeyPressed
         ELSE IF actionKey = key THEN FALSE ELSE hasActionKeyPressed
    /\ DragEnds
    /\ UNCHANGED <<position, scale, stores, refs, gesture, config, pinch>>

----------------------------------------------------------------------------
(* The imperative methods, called by the embedding page.                   *)

Method_EndsGesture(v) ==
    /\ Tick
    /\ isMoving' = FALSE
    /\ hasPointerDown' = FALSE
    /\ offset' = Pos(Zero, Zero)
    /\ DragInterleaved
    /\ UNCHANGED <<stores, refs, lastCenter, lastDistance, hasActionKeyPressed,
                   config, pinch>>
    /\ Write(v)

Method(v) ==
    /\ Tick
    /\ DragInterleaved
    /\ UNCHANGED <<stores, refs, gesture, hasActionKeyPressed, config, pinch>>
    /\ Write(v)

PanTo(x, y) == Method(panTo(Here, x, y, scale))
Pan(x, y) == Method(pan(Here, x, y, scale))
Zoom(x, y, s) == Method(zoom(Here, x, y, s, scale))
ZoomOnCenter(s) == Method(zoomOnCenter(Here, s, scale))
FitToViewer(forceScale) == Method(fitToViewer(Here, forceScale, scale))
FitSelection(x, y, w, h) == Method(fitSelection(Here, x, y, w, h))
Center == Method(center(Here, scale))

\* states.scale.set(next): a write to the scale value by the embedding page
ScaleSet(next) == Method(scaleSet(Here, next))

----------------------------------------------------------------------------
(* Store writes made by the embedding page and by the component.           *)

lockEffect_NoLower(v, locked, dom) ==
    IF ~locked \/ ~attached THEN v
    ELSE LET c == containerRect(dom)
         IN  positionSet(v,
                 Pos(clampAxis_NoLower(v.position.x, c.width, viewerRect.width),
                     clampAxis_NoLower(v.position.y, c.height,
                                       viewerRect.height)))

\* effect([lockToBoundaries], ...): runs when the store's value changes
lockEffect(v, locked, dom) ==
    IF ~locked \/ ~attached THEN v
    ELSE LET c == containerRect(dom)
         IN  positionSet(v,
                 Pos(clampAxis(v.position.x, c.width, viewerRect.width),
                     clampAxis(v.position.y, c.height, viewerRect.height)))

SetLockToBoundaries(b) ==
    /\ Tick
    /\ lockToBoundaries' = overridableSet(onLockChange(lockToBoundaries, b))
    /\ IF lockToBoundaries' # lockToBoundaries
       THEN Write(lockEffect(Here, lockToBoundaries', scale))
       ELSE UNCHANGED <<position, scale>>
    /\ DragInterleaved
    /\ UNCHANGED <<ignoreScale, actionKey, refs, gesture, hasActionKeyPressed,
                   config, pinch>>

SetIgnoreScale(b) ==
    /\ Tick
    /\ ignoreScale' = b
    /\ DragInterleaved
    /\ UNCHANGED <<position, scale, lockToBoundaries, actionKey, refs, gesture,
                   hasActionKeyPressed, config, pinch>>

\* a controlled actionKey store is written by its owner
SetActionKey(k) ==
    /\ Tick
    /\ actionKey' = k
    /\ DragEnds
    /\ UNCHANGED <<position, scale, lockToBoundaries, ignoreScale, refs, gesture,
                   hasActionKeyPressed, config, pinch>>

\* bind:this={$viewerRef}
BindViewer ==
    /\ ~viewerRef
    /\ viewerRef' = TRUE
    /\ UNCHANGED <<position, scale, stores, containerRef, gesture,
                   hasActionKeyPressed, config, drag, budget, pinch>>

\* bind:this={$containerRef}
BindContainer ==
    /\ ~containerRef
    /\ containerRef' = TRUE
    /\ UNCHANGED <<position, scale, stores, viewerRef, gesture,
                   hasActionKeyPressed, config, drag, budget, pinch>>

----------------------------------------------------------------------------
(* The component's resize observer (SVGViewer.svelte).                     *)

\* let resizeObserver: ResizeObserver | undefined = undefined
resizeObserverDeclared == FALSE

\* onMount: resizeObserver = resizeObserver && new ResizeObserver(...)
\* TRUE when an observer exists after mount
resizeObserver == resizeObserverDeclared /\ TRUE

\* the callback given to new ResizeObserver, called with the entries of the
\* observed elements whose size changed.  Its assignments to the component's
\* width and height props take effect at the next render.
resizeCallback(v, containerEntry, viewerEntry, dom) ==
    LET c == containerRect(dom)
        newX == RMin(Zero, RMin(RNeg(RSub(c.width, viewerRect.width)),
                                v.position.x))
        newY == RMin(Zero, RMin(RNeg(RSub(c.height, viewerRect.height)),
                                v.position.y))
        panned == IF containerEntry /\ lockToBoundaries
                  THEN panTo(v, newX, newY, dom) ELSE v
    IN  IF containerEntry /\ viewerEntry /\ RGt(viewerRect.width, c.width)
        THEN zoomOnCenter(panned, RDiv(viewerRect.width, c.width), dom)
        ELSE panned

\* the page gives the frame or the content element a new size after mount
Resize(newFrame, newContent) ==
    /\ Tick
    /\ attached
    /\ <<newFrame, newContent>> # <<frame, content>>
    /\ frame' = newFrame
    /\ content' = newContent
    /\ resized' = resized \cup (IF newFrame # frame THEN {"viewer"} ELSE {})
                         \cup (IF newContent # content THEN {"container"} ELSE {})
    /\ DragInterleaved
    /\ UNCHANGED <<position, scale, stores, refs, gesture, hasActionKeyPressed,
                   pinchBehavior, minScale, maxScale, props, pinch>>

\* the platform's notification of size changes, made after layout and before
\* any other handler runs: the observer, when there is one, is called back
\* with one entry per resized element
NotifyResize ==
    /\ resized # {}
    /\ resized' = {}
    /\ IF resizeObserver
       THEN Write(resizeCallback(Here, "container" \in resized,
                                 "viewer" \in resized, scale))
       ELSE UNCHANGED <<position, scale>>
    /\ DragInterleaved
    /\ UNCHANGED <<stores, refs, gesture, hasActionKeyPressed, pinchBehavior,
                   minScale, maxScale, frame, content, props, pinch, budget>>

----------------------------------------------------------------------------
(* Props and inputs explored.                                              *)

MaxSteps == 2
MaxMouseSteps == 3
MaxWrites == 2
MaxTouchSteps == 3
MaxDragSteps == 3
MaxPinchSteps == 5
MaxResizeSteps == 3
MaxVariantSteps == 3
MaxInterleaveSteps == 3

Keys == {"Control", "Shift"}
ActionKeys == {NoKey, "Control"}
Frames == {[x |-> 3, y |-> 2, w |-> 12, h |-> 8]}
Contents == {[w |-> 24, h |-> 16], [w |-> 10, h |-> 20], [w |-> 6, h |-> 4]}
Limits == {<<DefaultMinScale, DefaultMaxScale>>}
DefaultPositions == {IPos(-4, -2)}
DefaultScales == {One}
PinchBehaviors == {"zoomOnly", "zoomDrag"}

Pt(x, y) == [x |-> x, y |-> y]
Points == {Pt(8, 6), Pt(12, 5)}
WheelEvents == {<<Pt(8, 6), -100, 0>>, <<Pt(8, 6), 100, 0>>,
                <<Pt(12, 5), 0, -10>>, <<Pt(12, 5), 0, 0>>}
TouchLists == {<<Pt(8, 6)>>, <<Pt(12, 5)>>,
               <<Pt(4, 4), Pt(8, 4)>>, <<Pt(3, 4), Pt(8, 4)>>,
               <<Pt(4, 3), Pt(8, 6)>>, <<Pt(2, 4), Pt(8, 4)>>}
EndTouchLists == {<<>>, <<Pt(8, 6)>>, <<Pt(4, 4), Pt(8, 4)>>}
KeyDowns == {<<"Control", FALSE>>, <<"Control", TRUE>>, <<"Shift", FALSE>>}
Targets == {<<Int2R(-20), Int2R(3)>>, <<Int2R(-6), Int2R(-2)>>}
Deltas == {<<Int2R(-20), Int2R(3)>>, <<Int2R(2), Int2R(-1)>>}
Zooms == {<<Int2R(0), Int2R(0), <<1, 2>>>>, <<Int2R(6), Int2R(4), <<5, 4>>>>,
          <<Int2R(6), Int2R(0), <<2, 1>>>>, <<Int2R(0), Int2R(4), <<4, 5>>>>}
Scales == {<<1, 2>>, <<5, 4>>, <<2, 1>>}
Selections == {<<Int2R(5), Int2R(1), Int2R(6), Int2R(4)>>,
               <<Int2R(20), Int2R(1), Int2R(12), Int2R(8)>>,
               <<Int2R(0), Int2R(2), Int2R(12), Int2R(10)>>}

(* A prop that may hold a caller's store: <<>> when undefined, <<value>>    *)
(* when a store with that content is supplied.                             *)
Absent == <<>>
Supplied(value) == <<value>>

(* `withDefaults.position ?? options.defaultPosition`: the supplied store  *)
(* when there is one, otherwise a store made from the default value.       *)
storeOf_DefaultFirst(external, default) == default

storeOf(external, default) ==
    IF external # Absent THEN external[1] ELSE default

(* Props that supply no store: each state starts from its default value.   *)
Uncontrolled(p, s, l) ==
    [position |-> Absent, defaultPosition |-> p,
     scale |-> Absent, defaultScale |-> s,
     lockToBoundaries |-> Absent, defaultLockToBoundaries |-> l]

(* The stores createViewer builds from its props.                          *)
createViewer ==
    /\ position = storeOf(props.position, props.defaultPosition)
    /\ scale = storeOf(props.scale, props.defaultScale)
    /\ lockToBoundaries =
           storeOf(props.lockToBoundaries, props.defaultLockToBoundaries)

InitWith(steps, limits, scales) ==
    /\ \E p \in DefaultPositions, s \in scales, l \in BOOLEAN :
           props = Uncontrolled(p, s, l)
    /\ createViewer
    /\ ignoreScale \in BOOLEAN
    /\ actionKey \in ActionKeys
    /\ viewerRef = FALSE
    /\ containerRef = FALSE
    /\ offset = Pos(Zero, Zero)
    /\ lastCenter = <<>>
    /\ lastDistance = <<>>
    /\ hasActionKeyPressed = (actionKey = NoKey)
    /\ hasPointerDown = FALSE
    /\ isMoving = FALSE
    /\ pinchBehavior \in PinchBehaviors
    /\ \E l \in limits : minScale = l[1] /\ maxScale = l[2]
    /\ frame \in Frames
    /\ content \in Contents
    /\ drag = NoDrag
    /\ pinch = "none"
    /\ resized = {}
    /\ budget = steps

Init == InitWith(MaxSteps, Limits, DefaultScales)

MouseEvent ==
    \/ \E pt \in Points : onMouseDown(pt)
    \/ \E pt \in Points : onMouseMove(pt)
    \/ onMouseUp
    \/ \E e \in WheelEvents : onWheel(e[1], e[2], e[3])

TouchEvent ==
    \/ \E t \in TouchLists : onTouchStart(t)
    \/ \E t \in TouchLists : onTouchMove(t)
    \/ \E t \in EndTouchLists : onTouchEnd(t)

KeyEvent ==
    \/ \E e \in KeyDowns : onKeyDown(e[1], e[2])
    \/ \E k \in Keys : onKeyUp(k)

MethodCall ==
    \/ \E t \in Targets : PanTo(t[1], t[2])
    \/ \E d \in Deltas : Pan(d[1], d[2])
    \/ \E z \in Zooms : Zoom(z[1], z[2], z[3])
    \/ \E s \in Scales : ZoomOnCenter(s)
    \/ \E f \in BOOLEAN : FitToViewer(f)
    \/ \E r \in Selections : FitSelection(r[1], r[2], r[3], r[4])
    \/ Center

StoreWrite ==
    \/ SetLockToBoundaries(~lockToBoundaries)
    \/ SetIgnoreScale(~ignoreScale)
    \/ \E k \in ActionKeys \ {actionKey} : SetActionKey(k)

Mount ==
    \/ BindViewer
    \/ BindContainer

Next ==
    \/ MouseEvent
    \/ TouchEvent
    \/ KeyEvent
    \/ MethodCall
    \/ StoreWrite
    \/ Mount

Spec == Init /\ [][Next]_vars

(* Mouse, wheel and keyboard input only, explored deeper.                  *)
InitMouse == InitWith(MaxMouseSteps, Limits, DefaultScales)

NextMouse ==
    \/ MouseEvent
    \/ KeyEvent
    \/ StoreWrite
    \/ Mount

SpecMouse == InitMouse /\ [][NextMouse]_vars

(* Method calls and store writes only.                                     *)
NextMethods ==
    \/ MethodCall
    \/ StoreWrite
    \/ Mount

SpecMethods == Init /\ [][NextMethods]_vars

(* The documented scenario: defaults, frame 500x500, content 1000x1000.     *)
InitScenario ==
    /\ props = Uncontrolled(Pos(Zero, Zero), One, FALSE)
    /\ createViewer
    /\ ignoreScale = FALSE
    /\ actionKey = NoKey
    /\ viewerRef = FALSE
    /\ containerRef = FALSE
    /\ offset = Pos(Zero, Zero)
    /\ lastCenter = <<>>
    /\ lastDistance = <<>>
    /\ hasActionKeyPressed = TRUE
    /\ hasPointerDown = FALSE
    /\ isMoving = FALSE
    /\ pinchBehavior \in PinchBehaviors
    /\ minScale = DefaultMinScale /\ maxScale = DefaultMaxScale
    /\ frame = [x |-> 0, y |-> 0, w |-> 500, h |-> 500]
    /\ content = [w |-> 1000, h |-> 1000]
    /\ drag = NoDrag
    /\ pinch = "none"
    /\ resized = {}
    /\ budget = MaxSteps

SpecScenario == InitScenario /\ [][NextMethods]_vars

(* Every combination of supplied and absent stores for position, scale    *)
(* and lockToBoundaries, the supplied content differing from the default.  *)
SuppliedPositions == {Absent, Supplied(IPos(-4, -2))}
SuppliedScales == {Absent, Supplied(<<5, 4>>)}
SuppliedLocks == {Absent, Supplied(TRUE), Supplied(FALSE)}

InitProps ==
    /\ \E p \in SuppliedPositions, s \in SuppliedScales, l \in SuppliedLocks,
          dl \in BOOLEAN :
           props = [position |-> p, defaultPosition |-> Pos(Zero, Zero),
                    scale |-> s, defaultScale |-> One,
                    lockToBoundaries |-> l, defaultLockToBoundaries |-> dl]
    /\ createViewer
    /\ ignoreScale \in BOOLEAN
    /\ actionKey = NoKey
    /\ viewerRef = FALSE
    /\ containerRef = FALSE
    /\ offset = Pos(Zero, Zero)
    /\ lastCenter = <<>>
    /\ lastDistance = <<>>
    /\ hasActionKeyPressed = TRUE
    /\ hasPointerDown = FALSE
    /\ isMoving = FALSE
    /\ pinchBehavior = "zoomOnly"
    /\ minScale = DefaultMinScale /\ maxScale = DefaultMaxScale
    /\ frame \in Frames
    /\ content = [w |-> 24, h |-> 16]
    /\ drag = NoDrag
    /\ pinch = "none"
    /\ resized = {}
    /\ budget = MaxSteps

SpecProps == InitProps /\ [][NextMethods]_vars

(* Input events only.                                                      *)
NextInput ==
    \/ MouseEvent
    \/ TouchEvent
    \/ KeyEvent
    \/ Mount

SpecInput == Init /\ [][NextInput]_vars

(* Touch input only, explored deeper.                                      *)
InitTouch == InitWith(MaxTouchSteps, Limits, DefaultScales)

NextTouch ==
    \/ \E t \in TouchLists : onTouchMove(t)
    \/ \E t \in TouchLists : onTouchStart(t)
    \/ \E t \in EndTouchLists : onTouchEnd(t)
    \/ Mount

SpecTouch == InitTouch /\ [][NextTouch]_vars

(* Two-finger gestures only, explored over several gestures in a row: a   *)
(* touchStart brings the two touches down, touchMoves follow it, and a     *)
(* touchEnd lifts one or both touches (or a third one).                    *)
PinchLists == {<<Pt(4, 4), Pt(8, 4)>>, <<Pt(3, 4), Pt(8, 4)>>}

InitPinch ==
    /\ \E l \in BOOLEAN : props = Uncontrolled(IPos(-4, -2), One, l)
    /\ createViewer
    /\ ignoreScale = FALSE
    /\ actionKey = NoKey
    /\ viewerRef = FALSE
    /\ containerRef = FALSE
    /\ offset = Pos(Zero, Zero)
    /\ lastCenter = <<>>
    /\ lastDistance = <<>>
    /\ hasActionKeyPressed = TRUE
    /\ hasPointerDown = FALSE
    /\ isMoving = FALSE
    /\ pinchBehavior \in PinchBehaviors
    /\ minScale = DefaultMinScale /\ maxScale = DefaultMaxScale
    /\ frame \in Frames
    /\ content = [w |-> 24, h |-> 16]
    /\ drag = NoDrag
    /\ pinch = "none"
    /\ resized = {}
    /\ budget = MaxPinchSteps

NextPinch ==
    \/ \E t \in PinchLists : pinch # "none" /\ onTouchMove(t)
    \/ \E t \in PinchLists : pinch = "none" /\ onTouchStart(t)
    \/ \E t \in EndTouchLists : pinch # "none" /\ onTouchEnd(t)
    \/ Mount

SpecPinch == InitPinch /\ [][NextPinch]_vars

(* Drags: mouse buttons and moves, touches and keys, without the wheel.    *)
InitDrag ==
    /\ \E l \in BOOLEAN : props = Uncontrolled(IPos(-4, -2), One, l)
    /\ createViewer
    /\ ignoreScale = FALSE
    /\ actionKey \in ActionKeys
    /\ viewerRef = FALSE
    /\ containerRef = FALSE
    /\ offset = Pos(Zero, Zero)
    /\ lastCenter = <<>>
    /\ lastDistance = <<>>
    /\ hasActionKeyPressed = (actionKey = NoKey)
    /\ hasPointerDown = FALSE
    /\ isMoving = FALSE
    /\ pinchBehavior \in PinchBehaviors
    /\ minScale = DefaultMinScale /\ maxScale = DefaultMaxScale
    /\ frame \in Frames
    /\ content = [w |-> 24, h |-> 16]
    /\ drag = NoDrag
    /\ pinch = "none"
    /\ resized = {}
    /\ budget = MaxDragSteps

NextDrag ==
    \/ \E pt \in Points : onMouseDown(pt)
    \/ \E pt \in Points : onMouseMove(pt)
    \/ onMouseUp
    \/ TouchEvent
    \/ KeyEvent
    \/ Mount

SpecDrag == InitDrag /\ [][NextDrag]_vars

(* The two inputs that zoom, wheel events and two-finger touches, from a   *)
(* scale inside the limits.                                                *)
StartScales == {One, <<5, 4>>}

InitScaling ==
    /\ \E s \in StartScales, l \in BOOLEAN :
           props = Uncontrolled(IPos(-4, -2), s, l)
    /\ createViewer
    /\ ignoreScale \in BOOLEAN
    /\ actionKey = NoKey
    /\ viewerRef = FALSE
    /\ containerRef = FALSE
    /\ offset = Pos(Zero, Zero)
    /\ lastCenter = <<>>
    /\ lastDistance = <<>>
    /\ hasActionKeyPressed = TRUE
    /\ hasPointerDown = FALSE
    /\ isMoving = FALSE
    /\ pinchBehavior \in PinchBehaviors
    /\ minScale = DefaultMinScale /\ maxScale = DefaultMaxScale
    /\ frame \in Frames
    /\ content = [w |-> 24, h |-> 16]
    /\ drag = NoDrag
    /\ pinch = "none"
    /\ resized = {}
    /\ budget = MaxTouchSteps

NextScaling ==
    \/ \E e \in WheelEvents : onWheel(e[1], e[2], e[3])
    \/ \E t \in TouchLists : onTouchMove(t)
    \/ \E t \in TouchLists : onTouchStart(t)
    \/ Mount

SpecScaling == InitScaling /\ [][NextScaling]_vars

(* Size changes of the two elements after mount, between pans, each        *)
(* followed by the platform's notification.                                *)
ResizedFrames == {[x |-> 3, y |-> 2, w |-> 12, h |-> 8],
                  [x |-> 3, y |-> 2, w |-> 22, h |-> 15]}
ResizedContents == {[w |-> 24, h |-> 16], [w |-> 14, h |-> 10],
                    [w |-> 6, h |-> 4]}

InitResize ==
    /\ \E l \in BOOLEAN : props = Uncontrolled(IPos(-4, -2), One, l)
    /\ createViewer
    /\ ignoreScale = FALSE
    /\ actionKey = NoKey
    /\ viewerRef = FALSE
    /\ containerRef = FALSE
    /\ offset = Pos(Zero, Zero)
    /\ lastCenter = <<>>
    /\ lastDistance = <<>>
    /\ hasActionKeyPressed = TRUE
    /\ hasPointerDown = FALSE
    /\ isMoving = FALSE
    /\ pinchBehavior = "zoomOnly"
    /\ minScale = DefaultMinScale /\ maxScale = DefaultMaxScale
    /\ frame \in Frames
    /\ content = [w |-> 24, h |-> 16]
    /\ drag = NoDrag
    /\ pinch = "none"
    /\ resized = {}
    /\ budget = MaxResizeSteps

NextResize ==
    \/ NotifyResize
    \/ \E f \in ResizedFrames, c \in ResizedContents :
           resized = {} /\ Resize(f, c)
    \/ \E t \in Targets : resized = {} /\ PanTo(t[1], t[2])
    \/ \E d \in Deltas : resized = {} /\ Pan(d[1], d[2])
    \/ \E pt \in Points : resized = {} /\ onMouseDown(pt)
    \/ Mount

SpecResize == InitResize /\ [][NextResize]_vars

(* Input events and zoom calls with pinchBehavior zoomOnly, from a scale   *)
(* inside the limits or on the upper limit.                                *)
VariantScales == {One, DefaultMaxScale}

InitVariants ==
    /\ \E s \in VariantScales, l \in BOOLEAN :
           props = Uncontrolled(IPos(-4, -2), s, l)
    /\ createViewer
    /\ ignoreScale = FALSE
    /\ actionKey = NoKey
    /\ viewerRef = FALSE
    /\ containerRef = FALSE
    /\ offset = Pos(Zero, Zero)
    /\ lastCenter = <<>>
    /\ lastDistance = <<>>
    /\ hasActionKeyPressed = TRUE
    /\ hasPointerDown = FALSE
    /\ isMoving = FALSE
    /\ pinchBehavior = "zoomOnly"
    /\ minScale = DefaultMinScale /\ maxScale = DefaultMaxScale
    /\ frame \in Frames
    /\ content = [w |-> 24, h |-> 16]
    /\ drag = NoDrag
    /\ pinch = "none"
    /\ resized = {}
    /\ budget = MaxVariantSteps

NextVariants ==
    \/ \E e \in WheelEvents : onWheel(e[1], e[2], e[3])
    \/ \E z \in Zooms : Zoom(z[1], z[2], z[3])
    \/ \E t \in TouchLists : onTouchMove(t)
    \/ \E t \in TouchLists : onTouchStart(t)
    \/ \E t \in EndTouchLists : onTouchEnd(t)
    \/ Mount

SpecVariants == InitVariants /\ [][NextVariants]_vars

(* Method calls, wheel events and changes of lockToBoundaries made while   *)
(* a mouse drag or a pinch is under way.                                   *)
InitInterleave ==
    /\ \E l \in BOOLEAN : props = Uncontrolled(IPos(-4, -2), One, l)
    /\ createViewer
    /\ ignoreScale = FALSE
    /\ actionKey = NoKey
    /\ viewerRef = FALSE
    /\ containerRef = FALSE
    /\ offset = Pos(Zero, Zero)
    /\ lastCenter = <<>>
    /\ lastDistance = <<>>
    /\ hasActionKeyPressed = TRUE
    /\ hasPointerDown = FALSE
    /\ isMoving = FALSE
    /\ pinchBehavior = "zoomOnly"
    /\ minScale = DefaultMinScale /\ maxScale = DefaultMaxScale
    /\ frame \in Frames
    /\ content = [w |-> 24, h |-> 16]
    /\ drag = NoDrag
    /\ pinch = "none"
    /\ resized = {}
    /\ budget = MaxInterleaveSteps

NextInterleave ==
    \/ \E pt \in Points : onMouseDown(pt)
    \/ \E pt \in Points : onMouseMove(pt)
    \/ \E t \in PinchLists : onTouchMove(t)
    \/ \E t \in PinchLists : onTouchStart(t)
    \/ \E e \in WheelEvents : onWheel(e[1], e[2], e[3])
    \/ MethodCall
    \/ SetLockToBoundaries(~lockToBoundaries)
    \/ Mount

SpecInterleave == InitInterleave /\ [][NextInterleave]_vars

(* Writes to the scale value alone, from any limits and any current scale. *)
ScaleLimits == {<<DefaultMinScale, DefaultMaxScale>>, <<One, One>>,
                <<<<1, 2>>, <<3, 1>>>>}
CurrentScales == {One, <<2, 1>>, <<1, 4>>}
ProposedScales == {<<1, 4>>, <<3, 5>>, One, <<5, 4>>, <<7, 5>>, <<2, 1>>,
                   <<4, 1>>}

InitScale == InitWith(MaxWrites, ScaleLimits, CurrentScales)

NextScale ==
    \/ \E n \in ProposedScales : ScaleSet(n)
    \/ SetIgnoreScale(~ignoreScale)

SpecScale == InitScale /\ [][NextScale]_vars

----------------------------------------------------------------------------
(* Vocabulary of the properties.                                           *)

InLimits(s) == RLe(minScale, s) /\ RLe(s, maxScale)

\* -(contentSize - frameSize) <= p <= 0 on both axes, for the content
\* rendered at scale s: the content rectangle covers the frame rectangle
InBounds(p, s) ==
    LET c == containerRect(s)
    IN  /\ RLe(RNeg(RSub(c.width, viewerRect.width)), p.x)
        /\ RLe(p.x, Zero)
        /\ RLe(RNeg(RSub(c.height, viewerRect.height)), p.y)
        /\ RLe(p.y, Zero)

\* the content rendered at scale s is at least as large as the frame
AtLeastFrame(s) ==
    LET c == containerRect(s)
    IN  RGe(c.width, viewerRect.width) /\ RGe(c.height, viewerRect.height)

\* the content-local point under the frame-local point (x, y) in view v
LocalPoint(v, x, y) ==
    Pos(RDiv(RSub(x, v.position.x), v.scale),
        RDiv(RSub(y, v.position.y), v.scale))

----------------------------------------------------------------------------
(* C1.  The claim: in every reachable state, lockToBoundaries on and       *)
(* ignoreScale off imply minScale <= scale <= maxScale.                    *)
C1_LockedScaleInLimits ==
    (lockToBoundaries /\ ~ignoreScale) => InLimits(scale)

----------------------------------------------------------------------------
(* C2.  The claim: a write of n to the scale value stores a value inside   *)
(* the limits when ignoreScale is off, whatever the current scale, and     *)
(* stores n when ignoreScale is on.                                        *)
C2_WriteLandsInLimits ==
    [][\A n \in ProposedScales :
          ScaleSet(n) => IF ignoreScale THEN scale' = n
                         ELSE InLimits(scale')]_vars

----------------------------------------------------------------------------
\* a run of one of the operations that write position
PositionWrite ==
    \/ \E t \in Targets : PanTo(t[1], t[2])
    \/ \E d \in Deltas : Pan(d[1], d[2])
    \/ \E z \in Zooms : Zoom(z[1], z[2], z[3])
    \/ \E s \in Scales : ZoomOnCenter(s)
    \/ \E f \in BOOLEAN : FitToViewer(f)
    \/ \E r \in Selections : FitSelection(r[1], r[2], r[3], r[4])
    \/ Center
    \/ (\E pt \in Points : onMouseMove(pt)) /\ position' # position
    \/ (\E t \in TouchLists : onTouchMove(t)) /\ position' # position

(* C3.  The claim: with lockToBoundaries on and both elements attached,    *)
(* after any operation that writes position the position satisfies         *)
(* -(contentWidth - frameWidth) <= x <= 0 and                              *)
(* -(contentHeight - frameHeight) <= y <= 0.  It is stated here for the    *)
(* runs that end with the content at least as large as the frame, the only *)
(* ones in which a position inside these bounds exists.                    *)
C3_WritesKeepPositionInBounds ==
    [][(lockToBoundaries /\ attached /\ PositionWrite /\ AtLeastFrame(scale'))
          => InBounds(position', scale')]_vars

----------------------------------------------------------------------------
\* a run of panTo, pan, or zoom without the fit-to-viewer fallback
PanOrZoom ==
    \/ \E t \in Targets : PanTo(t[1], t[2])
    \/ \E d \in Deltas : Pan(d[1], d[2])
    \/ \E z \in Zooms : /\ ~zoomFallsBack(Here, z[3], scale)
                        /\ Zoom(z[1], z[2], z[3])

(* C4.  The claim: with lockToBoundaries on, after any panTo, pan or zoom  *)
(* call that does not take the fit-to-viewer fallback the content          *)
(* rectangle covers the frame rectangle on both axes, for every content    *)
(* size, also content smaller than the frame.                              *)
C4_AlwaysCovers ==
    [][(lockToBoundaries /\ attached /\ PanOrZoom)
          => InBounds(position', scale')]_vars

(* C4 as amended: with lockToBoundaries on, after any panTo, pan or zoom   *)
(* call that does not take the fit-to-viewer fallback and ends with the    *)
(* content at least as large as the frame on both axes, the content        *)
(* rectangle covers the frame rectangle on both axes.                      *)
C4_CoversWhenLargeEnough ==
    [][(lockToBoundaries /\ attached /\ PanOrZoom /\ AtLeastFrame(scale'))
          => InBounds(position', scale')]_vars

C4_Witness ==
    /\ lockToBoundaries /\ attached /\ budget < MaxSteps
    /\ content = [w |-> 24, h |-> 16] /\ scale = One
    /\ position = IPos(-12, 0)

----------------------------------------------------------------------------
\* zoom(x, y, s) ran without the fallback and kept the content-local point
\* under the frame-local point (x, y)
ZoomKeepsAnchor(x, y, s) ==
    (attached /\ ~zoomFallsBack(Here, s, scale) /\ Zoom(x, y, s))
        => LocalPoint(View(position', scale'), x, y) = LocalPoint(Here, x, y)

(* C5.  The claim: a zoom(x, y, s) call that does not fall back to         *)
(* fitToViewer keeps (x - position.x)/scale and (y - position.y)/scale     *)
(* the same, for every lockToBoundaries and ignoreScale setting.           *)
C5_AnchorFixed ==
    [][\A z \in Zooms : ZoomKeepsAnchor(z[1], z[2], z[3])]_vars

(* C5 as amended: with lockToBoundaries off, a zoom(x, y, s) call keeps    *)
(* (x - position.x)/scale and (y - position.y)/scale the same, for every   *)
(* ignoreScale setting.  (With lockToBoundaries on the clamp of the new    *)
(* position moves the anchor.)                                             *)
C5_AnchorFixedUnlocked ==
    [][\A z \in Zooms :
          ~lockToBoundaries => ZoomKeepsAnchor(z[1], z[2], z[3])]_vars

C5_Witness ==
    /\ ~lockToBoundaries /\ attached /\ budget < MaxSteps
    /\ scale = <<5, 4>>
    /\ position = Pos(<<-13, 2>>, <<-7, 2>>)

----------------------------------------------------------------------------
(* C6.  With both elements attached and the action key satisfied, a        *)
(* pointerDown at frame-relative point p0 followed by one or more          *)
(* pointerMoves ending at p1, with no pointerUp in between and             *)
(* lockToBoundaries off, leaves position = (position at pointerDown)       *)
(* + (p1 - p0).                                                            *)
C6_DragShift ==
    (drag # NoDrag /\ drag.last = "move" /\ ~lockToBoundaries)
        => position = Pos(RAdd(drag.start.x, RSub(drag.p1.x, drag.p0.x)),
                          RAdd(drag.start.y, RSub(drag.p1.y, drag.p0.y)))

C6_Witness ==
    /\ drag # NoDrag /\ ~lockToBoundaries
    /\ drag.last = "move" /\ drag.p1 # drag.p0
    /\ position # drag.start

----------------------------------------------------------------------------
\* an action key is configured and the engine does not hold it as pressed
KeyMissing == actionKey # NoKey /\ ~hasActionKeyPressed

----------------------------------------------------------------------------
(* C8.  The claim: when an action key is configured and is not held, no    *)
(* input handler (mouse, wheel, touch start, move or end, two-finger pinch *)
(* included) changes position or scale.                                    *)
C8_AllInputInert ==
    [][(KeyMissing /\ (MouseEvent \/ TouchEvent))
          => UNCHANGED <<position, scale>>]_vars

----------------------------------------------------------------------------
(* C9.  The claim: whenever the value of the actionKey store is undefined, *)
(* a pointerDown arms a drag and a wheel event zooms at the cursor, also   *)
(* after the store was changed at runtime and after any key events.        *)
C9_NoKeyMeansActive ==
    [][(actionKey = NoKey /\ attached) =>
          /\ (\E pt \in Points : onMouseDown(pt)) => hasPointerDown'
          /\ \A e \in WheelEvents :
                onWheel(e[1], e[2], e[3]) =>
                    LET cursorPos == getMousePosition(e[1])
                    IN  Write(zoom(Here, cursorPos.x, cursorPos.y,
                                   wheelScale(scale, e[2], e[3]), scale))]_vars

----------------------------------------------------------------------------
(* C10.  The claim: fitSelection(x, y, w, h), with both elements attached, *)
(* sets scale to min(frameWidth/w, frameHeight/h) and leaves               *)
(* position + (x, y) * scale = (0, 0), for every selection and every       *)
(* minScale, maxScale and ignoreScale setting.                             *)
C10_FitSelectionExact ==
    [][\A r \in Selections :
          (attached /\ FitSelection(r[1], r[2], r[3], r[4])) =>
              /\ scale' = RMin(RDiv(viewerRect.width, r[3]),
                               RDiv(viewerRect.height, r[4]))
              /\ RAdd(position'.x, RMul(r[1], scale')) = Zero
              /\ RAdd(position'.y, RMul(r[2], scale')) = Zero]_vars

----------------------------------------------------------------------------
----------------------------------------------------------------------------
\* the fit scale of the specification: from the unscaled content size
FitRatio ==
    LET rx == Rat(frame.w, content.w)
        ry == Rat(frame.h, content.h)
    IN  IF lockToBoundaries
        THEN IF RLt(RAbs(RSub(ry, One)), RAbs(RSub(rx, One))) THEN ry ELSE rx
        ELSE RDiv(RAdd(rx, ry), <<2, 1>>)

(* C18.  The claim: fitToViewer(forceScale = true), with both elements     *)
(* attached, leaves scale equal to the computed fit scale also when that   *)
(* lies outside [minScale, maxScale], whatever ignoreScale is.             *)
C18_ForcedFitNeglectsLimits ==
    [][(attached /\ FitToViewer(TRUE)) => scale' = FitRatio]_vars

----------------------------------------------------------------------------
(* C19.  fitToViewer() with forceScale false, with both elements attached, *)
(* sets position to (0, 0) and scale to the fit ratio clamped to           *)
(* [minScale, maxScale]: the ratio of rx = frameWidth/unscaledContentWidth *)
(* and ry = frameHeight/unscaledContentHeight closer to 1 under            *)
(* lockToBoundaries, their mean otherwise.  The write is never rejected,   *)
(* whatever the previous scale.                                            *)
C19_FitToViewerResult ==
    attached =>
        fitToViewer(Here, FALSE, scale)
            = View(Pos(Zero, Zero), RMax(minScale, RMin(maxScale, FitRatio)))

C19_Witness ==
    /\ attached /\ budget < MaxSteps /\ ~lockToBoundaries
    /\ content = [w |-> 10, h |-> 20]
    /\ scale = <<4, 5>> /\ position = Pos(Zero, Zero)

----------------------------------------------------------------------------
\* min(maxScale, max(minScale, s))
Clamped(s) == RMin(maxScale, RMax(minScale, s))

(* C13.  zoomOnCenter(s) clamps s to [minScale, maxScale] also when        *)
(* ignoreScale is on: with lockToBoundaries off the resulting scale is     *)
(* min(maxScale, max(minScale, s)), and the content point under the frame  *)
(* center (frameWidth/2, frameHeight/2) stays under it.                    *)
C13_ZoomOnCenterClamps ==
    (attached /\ ~lockToBoundaries) =>
        \A s \in Scales :
            LET r == zoomOnCenter(Here, s, scale)
                cx == Rat(frame.w, 2)
                cy == Rat(frame.h, 2)
            IN  /\ r.scale = Clamped(s)
                /\ LocalPoint(r, cx, cy) = LocalPoint(Here, cx, cy)

C13_Witness ==
    /\ attached /\ ~lockToBoundaries /\ ignoreScale
    /\ budget = MaxSteps - 1
    /\ scale = <<7, 5>>
    /\ position = Pos(<<-8, 1>>, <<-22, 5>>)

----------------------------------------------------------------------------
(* C14.  center(), with both elements attached, sets position to           *)
(* (-(contentWidth - frameWidth)/2, -(contentHeight - frameHeight)/2) for  *)
(* the content at its current scale and leaves scale unchanged; with frame *)
(* 500x500, content 1000x1000 and scale 1 the result is (-250, -250).      *)
C14_CenterResult ==
    attached =>
        LET r == center(Here, scale)
            cw == RMul(Int2R(content.w), scale)
            ch == RMul(Int2R(content.h), scale)
        IN  /\ r.scale = scale
            /\ r.position = Pos(RDiv(RNeg(RSub(cw, Int2R(frame.w))), <<2, 1>>),
                                RDiv(RNeg(RSub(ch, Int2R(frame.h))), <<2, 1>>))
            /\ scale = One => r.position = IPos(-250, -250)

C14_Witness ==
    /\ attached /\ budget = MaxSteps - 1
    /\ scale = One /\ position = IPos(-250, -250)

----------------------------------------------------------------------------
\* no method of the engine has run yet
Constructed == budget = MaxSteps

----------------------------------------------------------------------------
\* the position zoom writes for anchor (x, y) when the scale goes from
\* v.scale to stored
ZoomedPosition(v, x, y, stored) ==
    LET ratio == RDiv(stored, v.scale)
        nx == RAdd(RMul(ratio, RSub(v.position.x, x)), x)
        ny == RAdd(RMul(ratio, RSub(v.position.y, y)), y)
        lowX == RNeg(RSub(RMul(Int2R(content.w), stored), Int2R(frame.w)))
        lowY == RNeg(RSub(RMul(Int2R(content.h), stored), Int2R(frame.h)))
    IN  IF lockToBoundaries
        THEN Pos(RMin(Zero, RMax(nx, lowX)), RMin(Zero, RMax(ny, lowY)))
        ELSE Pos(nx, ny)

(* C20.  After a zoom(x, y, s) call that does not fall back to             *)
(* fitToViewer, scale = min(maxScale, max(minScale, s)) when ignoreScale   *)
(* is off and scale = s when it is on, and the position written is the one *)
(* that belongs to the scale stored.                                       *)
C20_ZoomScaleAndPositionInStep ==
    attached =>
        \A z \in Zooms :
            ~zoomFallsBack(Here, z[3], scale) =>
                LET r == zoom(Here, z[1], z[2], z[3], scale)
                IN  /\ r.scale = IF ignoreScale THEN z[3] ELSE Clamped(z[3])
                    /\ r.position = ZoomedPosition(Here, z[1], z[2], r.scale)

C20_Witness ==
    /\ attached /\ ~lockToBoundaries /\ ~ignoreScale
    /\ budget = MaxSteps - 1
    /\ scale = <<7, 5>>
    /\ position = Pos(<<-8, 1>>, <<-14, 5>>)

----------------------------------------------------------------------------
(* C16.  While the frame or the content element reference is absent, every *)
(* imperative method returns without changing position, scale or any other *)
(* state, for any arguments and any number of calls.                       *)
C16_MethodsInertUnattached ==
    [][(~attached /\ MethodCall)
          => UNCHANGED <<position, scale, stores, refs, gesture,
                         hasActionKeyPressed, config>>]_vars

C16_Witness ==
    /\ ~attached /\ viewerRef /\ budget < MaxSteps
    /\ position \in DefaultPositions /\ scale \in DefaultScales

----------------------------------------------------------------------------
(* C17.  The claim: while the frame or the content element reference is    *)
(* absent, every gesture handler (pointer down, move, up, wheel, touch     *)
(* start, move, end, key down, up) changes neither position, scale,        *)
(* isMoving, the armed flag, the drag offset, the pinch baseline nor the   *)
(* action-key-held flag.                                                   *)
C17_AllHandlersInertUnattached ==
    [][(~attached /\ (MouseEvent \/ TouchEvent \/ KeyEvent))
          => UNCHANGED <<position, scale, gesture, hasActionKeyPressed>>]_vars

(* C17 as amended: while the frame or the content element reference is     *)
(* absent, every pointer, wheel and touch handler changes neither          *)
(* position, scale, isMoving, the armed flag, the drag offset, the pinch   *)
(* baseline nor the action-key-held flag; onKeyDown and onKeyUp change     *)
(* none of these except the action-key-held flag, which they keep          *)
(* tracking.                                                               *)
C17_PointerHandlersInertUnattached ==
    [][~attached =>
          /\ (MouseEvent \/ TouchEvent)
                => UNCHANGED <<position, scale, gesture, hasActionKeyPressed>>
          /\ KeyEvent => UNCHANGED <<position, scale, gesture>>]_vars

C17_Witness ==
    /\ ~attached /\ containerRef /\ budget < MaxSteps
    /\ actionKey # NoKey /\ hasActionKeyPressed
    /\ ~hasPointerDown /\ offset = Pos(Zero, Zero) /\ lastDistance = <<>>

----------------------------------------------------------------------------
\* a two-finger touchMove with touches t continues a pinch whose baseline
\* distance and center are recorded, with no drag under way
PinchContinues(t) ==
    /\ attached /\ isPinchGesture(t) /\ ~isMoving
    /\ lastCenter # <<>>
    /\ lastDistance # <<>> /\ lastDistance # Zero
    /\ onTouchMove(t)

\* oldScale * (d1/d0) for the touches t and the recorded baseline d0
PinchTarget(t) ==
    RMul(scale, RDiv(getPinchDistance(t[1], t[2]), lastDistance))

\* the content at scale s is strictly larger than the frame on both axes
LargerThanFrame(s) ==
    /\ RGt(RMul(Int2R(content.w), s), Int2R(frame.w))
    /\ RGt(RMul(Int2R(content.h), s), Int2R(frame.h))

(* C12.  The claim: in a pinch, two touches that started at distance d0    *)
(* and move to distance d1 leave scale = oldScale * (d1/d0) clamped to     *)
(* [minScale, maxScale]: beyond a limit the scale ends at that limit.  It  *)
(* is stated here for the moves that keep the content larger than the      *)
(* frame.                                                                  *)
C12_PinchClampsToLimit ==
    [][\A t \in TouchLists :
          (PinchContinues(t) /\ LargerThanFrame(PinchTarget(t)))
              => scale' = Clamped(PinchTarget(t))]_vars

(* C12 as amended: a two-finger touchStart records the distance d0 of the  *)
(* touches; a later two-finger move to distance d1, once the pinch center  *)
(* is recorded, leaves scale = oldScale * (d1/d0) when that value lies in  *)
(* [minScale, maxScale] and keeps the content larger than the frame, and   *)
(* leaves the scale at its previous value otherwise (it does not move to   *)
(* the limit).                                                             *)
C12_PinchAppliesOrKeeps ==
    [][\A t \in TouchLists :
          /\ (attached /\ isPinchGesture(t) /\ onTouchStart(t))
                => lastDistance' = getPinchDistance(t[1], t[2])
          /\ PinchContinues(t)
                => scale' = IF /\ InLimits(PinchTarget(t))
                               /\ LargerThanFrame(PinchTarget(t))
                            THEN PinchTarget(t) ELSE scale]_vars

C12_Witness ==
    /\ attached /\ lastCenter # <<>>
    /\ scale = <<5, 4>> /\ lastDistance = Int2R(5)

----------------------------------------------------------------------------
\* the scale a zoom to s ends at: s itself under ignoreScale, s clamped to
\* the limits otherwise
StoredScale(s) == IF ignoreScale THEN s ELSE Clamped(s)

\* the content at scale s is smaller than the frame on at least one axis
SmallerThanFrame(s) ==
    \/ RLt(RMul(Int2R(content.w), s), Int2R(frame.w))
    \/ RLt(RMul(Int2R(content.h), s), Int2R(frame.h))

(* C21.  The claim: with lockToBoundaries on, zoom falls back to           *)
(* fitToViewer() if and only if the requested scale is lower than the      *)
(* current one and the rescaled content would be smaller than the frame on *)
(* at least one axis, and the result is then that of fitToViewer(); a      *)
(* request that scales up is never replaced by fitToViewer.                *)
C21_FallsBackOnlyScalingDown ==
    attached =>
        \A z \in Zooms :
            /\ zoomFallsBack(Here, z[3], scale)
                  <=> /\ lockToBoundaries
                      /\ RLt(z[3], scale)
                      /\ SmallerThanFrame(StoredScale(z[3]))
            /\ zoomFallsBack(Here, z[3], scale)
                  => zoom(Here, z[1], z[2], z[3], scale)
                        = fitToViewer(Here, FALSE, scale)

(* C21 as amended: with lockToBoundaries on, zoom falls back to            *)
(* fitToViewer() if and only if the content rescaled to the new scale (the *)
(* requested scale, clamped to the limits unless ignoreScale is on) would  *)
(* be smaller than the frame on at least one axis, whether the request     *)
(* scales down or up; the result is then that of fitToViewer().  With      *)
(* lockToBoundaries off zoom never falls back.                             *)
C21_FallsBackWhenSmaller ==
    attached =>
        \A z \in Zooms :
            /\ zoomFallsBack(Here, z[3], scale)
                  <=> /\ lockToBoundaries
                      /\ SmallerThanFrame(StoredScale(z[3]))
            /\ zoomFallsBack(Here, z[3], scale)
                  => zoom(Here, z[1], z[2], z[3], scale)
                        = fitToViewer(Here, FALSE, scale)

C21_Witness ==
    /\ attached /\ lockToBoundaries /\ budget < MaxSteps
    /\ content = [w |-> 6, h |-> 4]
    /\ scale = <<7, 5>> /\ position = Pos(Zero, Zero)

----------------------------------------------------------------------------
\* event.deltaY || event.deltaX
WheelDelta(e) == IF e[2] # 0 THEN e[2] ELSE e[3]

\* the scale the claim has a wheel event ask for: oldScale * step for a
\* negative delta, oldScale / step for a positive one
WheelRequest(e) ==
    LET step == IF IAbs(WheelDelta(e)) > 50 THEN scaleMouseSensitivity
                ELSE scaleTouchpadSensitivity
    IN  IF WheelDelta(e) < 0 THEN RMul(scale, step) ELSE RDiv(scale, step)

(* C22.  The claim: for a wheel event with the elements attached and the   *)
(* action key satisfied, a negative delta never decreases scale and a      *)
(* positive delta never increases it; the requested scale is oldScale *    *)
(* step for a negative delta and oldScale / step for a positive one, step  *)
(* being scaleMouseSensitivity when |delta| > 50 and                       *)
(* scaleTouchpadSensitivity otherwise, and the zoom is anchored at the     *)
(* cursor position relative to the frame.                                  *)
C22_WheelDirection ==
    [][\A e \in WheelEvents :
          (/\ attached /\ hasActionKeyPressed /\ WheelDelta(e) # 0
           /\ onWheel(e[1], e[2], e[3]))
              => /\ WheelDelta(e) < 0 => RGe(scale', scale)
                 /\ WheelDelta(e) > 0 => RLe(scale', scale)
                 /\ View(position', scale')
                       = zoom(Here, Int2R(e[1].x - frame.x),
                              Int2R(e[1].y - frame.y), WheelRequest(e),
                              scale)]_vars

----------------------------------------------------------------------------
(* C23.  The claim: the wheel and pinch paths clamp against the limits     *)
(* irrespective of ignoreScale: starting from a scale inside the limits,   *)
(* no sequence of wheel events and pinch moves produces a scale outside    *)
(* [minScale, maxScale], whether ignoreScale is on or off.                 *)
C23_WheelAndPinchStayInLimits == InLimits(scale)

(* C23 as amended: the pinch path checks the limits irrespective of        *)
(* ignoreScale and the wheel path clamps only while ignoreScale is off:    *)
(* from a scale inside the limits no touch move leaves the limits, and no  *)
(* wheel event does while ignoreScale is off.  (With ignoreScale on a      *)
(* wheel event takes the scale past a limit.)                              *)
C23_PinchChecksWheelClampsUnlessIgnored ==
    [][(/\ InLimits(scale)
        /\ \/ ~ignoreScale
           \/ \E t \in TouchLists : onTouchMove(t))
          => InLimits(scale')]_vars

C23_Witness ==
    /\ attached /\ ignoreScale /\ props.defaultScale = One
    /\ lastCenter # <<>> /\ lastDistance = Int2R(5)
    /\ scale = <<5, 4>>

----------------------------------------------------------------------------
\* a handler run that ends a drag: pointerUp, touchEnd or touchCancel, or a
\* two-finger touchStart
DragEndEvent ==
    \/ onMouseUp
    \/ \E t \in EndTouchLists : onTouchEnd(t)
    \/ \E t \in TouchLists : isPinchGesture(t) /\ onTouchStart(t)

\* a pointerDown with the action key satisfied or a single-finger touchStart
DragStartEvent ==
    \/ hasActionKeyPressed /\ \E pt \in Points : onMouseDown(pt)
    \/ \E t \in TouchLists : ~isPinchGesture(t) /\ onTouchStart(t)

\* a pointerMove with the action key satisfied or a single-finger touchMove
DragMoveEvent ==
    \/ hasActionKeyPressed /\ \E pt \in Points : onMouseMove(pt)
    \/ \E t \in TouchLists : ~isPinchGesture(t) /\ onTouchMove(t)

(* C24.  isMoving is true exactly between a recognized drag start and its  *)
(* drag end: a drag is armed only by a pointerDown (action key satisfied)  *)
(* or a single-finger touchStart; isMoving becomes true only on a pointer  *)
(* or touch move made while a drag is armed, stays true until a pointerUp, *)
(* touchEnd, touchCancel or two-finger touchStart, and is false after      *)
(* each of these; pointerDown, touchStart, pointerUp and touchEnd never    *)
(* set isMoving and never change position.                                 *)
C24_MovingBetweenStartAndEnd ==
    [][attached =>
          /\ (~hasPointerDown /\ hasPointerDown') => DragStartEvent
          /\ (~isMoving /\ isMoving') => (hasPointerDown /\ DragMoveEvent)
          /\ (isMoving /\ ~isMoving') => DragEndEvent
          /\ DragEndEvent => ~isMoving'
          /\ (DragStartEvent \/ DragEndEvent)
                => (position' = position /\ (isMoving' => isMoving))]_vars

C24_Witness ==
    /\ attached /\ isMoving /\ ~hasPointerDown
    /\ budget = MaxDragSteps - 2
    /\ position # IPos(-4, -2)

----------------------------------------------------------------------------
\* no drag is armed or under way
Idle == ~isMoving /\ ~hasPointerDown

(* C25.  With both elements attached, every pointerUp and every touchEnd   *)
(* returns the engine to Idle whatever the action-key state: afterwards    *)
(* isMoving is false, the armed flag is false and the drag offset is       *)
(* (0, 0).  Idle is left only by a pointerDown or a touchStart, and a      *)
(* pointerMove or single-finger touchMove made in Idle leaves position     *)
(* unchanged.                                                              *)
C25_UpAndEndReturnToIdle ==
    [][attached =>
          /\ (onMouseUp \/ \E t \in EndTouchLists : onTouchEnd(t))
                => (Idle' /\ offset' = Pos(Zero, Zero))
          /\ (Idle /\ ~Idle')
                => \/ \E pt \in Points : onMouseDown(pt)
                   \/ \E t \in TouchLists : onTouchStart(t)
          /\ (/\ Idle
              /\ \/ \E pt \in Points : onMouseMove(pt)
                 \/ \E t \in TouchLists :
                        ~isPinchGesture(t) /\ onTouchMove(t))
                => position' = position]_vars

C25_Witness ==
    /\ attached /\ Idle /\ offset = Pos(Zero, Zero)
    /\ actionKey # NoKey /\ ~hasActionKeyPressed
    /\ budget = 0
    /\ position # IPos(-4, -2)

----------------------------------------------------------------------------
(* C26.  The claim: the first two-finger touchMove of every pinch gesture  *)
(* (every two-finger touchStart ... touchEnd episode, not only the first   *)
(* one after construction) only records the pinch center and changes       *)
(* neither scale nor position.                                             *)
C26_FirstPinchMoveOnlyPrimes ==
    [][\A t \in PinchLists :
          (attached /\ pinch = "started" /\ onTouchMove(t))
              => /\ UNCHANGED <<position, scale>>
                 /\ lastCenter' = getPinchCenter(t[1], t[2])]_vars

----------------------------------------------------------------------------
(* C27.  The claim: when a pinch ends, by a touchEnd or touchCancel after  *)
(* which fewer than two touches remain, the pinch baseline is cleared:     *)
(* lastCenter is unset and lastDistance is reset.                          *)
C27_PinchEndClearsBaseline ==
    [][\A t \in EndTouchLists :
          (attached /\ pinch # "none" /\ ~isPinchGesture(t) /\ onTouchEnd(t))
              => /\ lastCenter' = <<>>
                 /\ lastDistance' \in {<<>>, Zero}]_vars

----------------------------------------------------------------------------
\* the candidate scale of a pinch move differs from the current scale and
\* passes the limit check and the cover-the-frame precheck
PinchPasses(t) ==
    /\ PinchTarget(t) # scale
    /\ InLimits(PinchTarget(t))
    /\ LargerThanFrame(PinchTarget(t))

(* C28.  A pinch move whose candidate scale fails the limit check or the   *)
(* cover-the-frame precheck is dropped: scale and position are unchanged   *)
(* and lastDistance and lastCenter are not advanced, so the next pinch     *)
(* move computes its ratio against the same baseline; a pinch move that is *)
(* applied advances both to its own distance and center.                   *)
C28_DroppedPinchKeepsBaseline ==
    [][\A t \in TouchLists :
          PinchContinues(t)
              => IF PinchPasses(t)
                 THEN /\ lastDistance' = getPinchDistance(t[1], t[2])
                      /\ lastCenter' = getPinchCenter(t[1], t[2])
                 ELSE UNCHANGED <<position, scale, lastDistance,
                                  lastCenter>>]_vars

C28_Witness ==
    /\ attached /\ pinch = "moved" /\ budget = MaxTouchSteps - 3
    /\ lastCenter = getPinchCenter(Pt(4, 4), Pt(8, 4))
    /\ lastDistance = Int2R(4)
    /\ scale = One /\ position = IPos(-4, -2)

----------------------------------------------------------------------------
\* the midpoint of two touches relative to the frame
LocalMidpoint(t) ==
    LET c == getPinchCenter(t[1], t[2])
    IN  Pos(RSub(c.x, Int2R(frame.x)), RSub(c.y, Int2R(frame.y)))

(* C29.  The claim: in a zoomOnly pinch move that is applied, with         *)
(* lockToBoundaries off, the content point under the midpoint of the two   *)
(* touches stays under that midpoint, wherever the frame is on screen.     *)
C29_PinchAnchoredAtMidpoint ==
    [][\A t \in TouchLists :
          (/\ pinch = "moved" /\ PinchContinues(t) /\ PinchPasses(t)
           /\ ~lockToBoundaries /\ pinchBehavior = "zoomOnly")
              => LocalPoint(View(position', scale'),
                            LocalMidpoint(t).x, LocalMidpoint(t).y)
                    = LocalPoint(Here, LocalMidpoint(t).x,
                                 LocalMidpoint(t).y)]_vars

----------------------------------------------------------------------------
\* a keyDown that is not a repeat, of the configured action key, while the
\* key is not held
KeyPress ==
    /\ ~hasActionKeyPressed
    /\ \E e \in KeyDowns : ~e[2] /\ e[1] = actionKey /\ onKeyDown(e[1], e[2])

\* a keyUp of the configured action key while the key is held
KeyRelease ==
    /\ hasActionKeyPressed
    /\ \E k \in Keys : k = actionKey /\ onKeyUp(k)

(* C30.  The action-key-held flag changes only as follows: a non-repeat    *)
(* keyDown whose key equals the configured action key sets it to true when *)
(* it is false; a keyUp whose key equals the action key sets it to false   *)
(* when it is true; repeated keyDowns, keyDowns while already held and all *)
(* non-matching keys leave it unchanged.  Key events never change          *)
(* position, scale, isMoving, the armed flag or the drag offset.           *)
C30_KeyFlagTransitions ==
    [][/\ \A e \in KeyDowns :
             onKeyDown(e[1], e[2])
                => hasActionKeyPressed'
                      = \/ hasActionKeyPressed
                        \/ ~e[2] /\ e[1] = actionKey
       /\ \A k \in Keys :
             onKeyUp(k)
                => hasActionKeyPressed'
                      = (hasActionKeyPressed /\ k # actionKey)
       /\ (hasActionKeyPressed' # hasActionKeyPressed)
             => (KeyPress \/ KeyRelease)
       /\ KeyEvent => UNCHANGED <<position, scale, isMoving, hasPointerDown,
                                  offset>>]_vars

C30_Witness ==
    /\ actionKey = "Control" /\ props.defaultScale = One
    /\ ~hasActionKeyPressed /\ hasPointerDown
    /\ budget = 0

----------------------------------------------------------------------------
(* C31.  pan(dx, dy) is panTo relative to the current position: every      *)
(* pan(dx, dy) call leaves the position that panTo(position.x + dx,        *)
(* position.y + dy) computes from the same state, and leaves scale         *)
(* unchanged, with lockToBoundaries on or off and with the elements bound  *)
(* or not.                                                                 *)
C31_PanIsRelativePanTo ==
    [][\A d \in Deltas :
          Pan(d[1], d[2]) =>
              /\ position' = panTo(Here, RAdd(position.x, d[1]),
                                   RAdd(position.y, d[2]), scale).position
              /\ scale' = scale]_vars

\* one call was made, with lockToBoundaries on, and left a position that
\* only pan(2, -1) from (0, 0) produces: x clamped to 0, y moved to -1
C31_Witness ==
    /\ attached
    /\ lockToBoundaries
    /\ budget = MaxSteps - 1
    /\ props.position = Absent
    /\ scale = storeOf(props.scale, props.defaultScale)
    /\ position = IPos(0, -1)

----------------------------------------------------------------------------
(* C32.  When lockToBoundaries changes from false to true while both       *)
(* elements are attached, position becomes, per axis,                      *)
(* min(0, max(p, -(contentSize - frameSize))) with scale unchanged; when   *)
(* it changes from true to false, or changes while an element is missing,  *)
(* position and scale are unchanged.                                       *)
Reclamped(p, s) ==
    Pos(RMin(Zero, RMax(p.x, RNeg(RSub(RMul(Int2R(content.w), s),
                                       Int2R(frame.w))))),
        RMin(Zero, RMax(p.y, RNeg(RSub(RMul(Int2R(content.h), s),
                                       Int2R(frame.h))))))

C32_LockChangeReclamps ==
    [][\A b \in BOOLEAN :
          (b # lockToBoundaries /\ SetLockToBoundaries(b)) =>
              /\ scale' = scale
              /\ position' = IF b /\ attached
                              THEN Reclamped(position, scale)
                              ELSE position]_vars

\* lockToBoundaries was off at construction and is on after two calls:
\* fitSelection(20, 1, 12, 8) moved the position to (-20, -1), and the change
\* of lockToBoundaries then brought x back to the lower bound -(24 - 12)
C32_Witness ==
    /\ attached
    /\ lockToBoundaries
    /\ ~storeOf(props.lockToBoundaries, props.defaultLockToBoundaries)
    /\ budget = MaxSteps - 2
    /\ scale = One
    /\ position = IPos(-12, -1)

----------------------------------------------------------------------------
(* C33.  The claim: when the frame or the content element changes size     *)
(* after mount while lockToBoundaries is true, the position afterwards     *)
(* lies within the clamp bounds for the new sizes, i.e. it is the value    *)
(* min(0, max(p, -(contentSize - frameSize))) of itself on both axes.      *)
C33_ResizeReclamps ==
    [][(lockToBoundaries /\ NotifyResize) =>
           position' = Reclamped(position', scale')]_vars

----------------------------------------------------------------------------
(* C34.  The claim: with pinchBehavior zoomOnly the two variants of the    *)
(* engine are observationally equivalent.  Their listeners and methods     *)
(* have the same text except onTouchStart, whose added branch is for       *)
(* zoomDrag, and onPinchMove; the claim is therefore stated for the moves  *)
(* of a pinch that follow its first one: from the same state and for the   *)
(* same touches, the position and scale the engine leaves are those the    *)
(* earlier variant's onPinchMove leaves, isMoving being unchanged.         *)
PinchView_part000(t) ==
    LET newScale == PinchTarget(t)
        scaleDiff == RDiv(newScale, scale)
    IN  IF scale # newScale /\ pinchAccepted_part000(newScale, scaleDiff, scale)
        THEN pinchApply_part000(Here, getPinchCenter(t[1], t[2]), newScale,
                                scaleDiff, scale)
        ELSE Here

C34_VariantsAgree ==
    [][\A t \in TouchLists :
          (pinchBehavior = "zoomOnly" /\ pinch = "moved" /\ PinchContinues(t))
              => /\ Write(PinchView_part000(t))
                 /\ isMoving' = isMoving]_vars

\* every touch step on which the two variants leave the same position and
\* scale is a step of the earlier variant: the transient gesture state of
\* the two variants stays the same until they differ in position or scale
VariantsShareTransientState ==
    [][pinchBehavior = "zoomOnly" =>
          \A t \in TouchLists :
              /\ onTouchStart(t) => onTouchStart_part000(t)
              /\ (onTouchMove(t)
                    /\ (PinchContinues(t) => Write(PinchView_part000(t))))
                    => onTouchMove_part000(t)]_vars

----------------------------------------------------------------------------
(* C35.  The claim: the gesture flags never encode two states at once: in  *)
(* every reachable state the armed flag hasPointerDown and isMoving are    *)
(* not both true, for any sequence of mouse and touch events.              *)
C35_FlagsExclusive == ~(hasPointerDown /\ isMoving)

----------------------------------------------------------------------------
(* C36.  The imperative methods (panTo, pan, zoom, zoomOnCenter,           *)
(* fitToViewer, fitSelection, center) and the lock re-clamp effect never   *)
(* modify transient gesture state: the armed flag, the drag offset,        *)
(* isMoving, lastCenter, lastDistance and the action-key-held flag are     *)
(* unchanged by every such call, also in the middle of a drag or a pinch.  *)
(* Stated on the steps: a step that changes one of these variables is     *)
(* not a call of a method and not a change of lockToBoundaries.            *)
C36_CallsKeepGestureState ==
    [][(<<hasPointerDown, offset, isMoving, lastCenter, lastDistance,
          hasActionKeyPressed>>' #
        <<hasPointerDown, offset, isMoving, lastCenter, lastDistance,
          hasActionKeyPressed>>)
           => ~(MethodCall \/ \E b \in BOOLEAN : SetLockToBoundaries(b))]_vars

\* center() was called in the middle of a moving drag: the position is the
\* centered one while the drag is still moving with its recorded offset
C36_Witness ==
    /\ attached
    /\ isMoving
    /\ drag # NoDrag
    /\ drag.last = "other"
    /\ offset = dragOffset(drag.p0, drag.start)
    /\ scale = One
    /\ position = IPos(-6, -4)

----------------------------------------------------------------------------
(* C37.  When a wheel zoom or an imperative pan, zoom or fit call runs     *)
(* between the pointerDown of a drag and a later pointerMove of the same   *)
(* drag, with lockToBoundaries off, the position after that pointerMove    *)
(* is the pointer position minus the offset recorded at pointerDown, i.e.  *)
(* the position at pointerDown shifted by p1 - p0: the position written by *)
(* the interleaved call is overwritten, and the scale it wrote persists.   *)
C37_DragOverwritesInterleavedCall ==
    [][\A pt \in Points :
          (/\ attached /\ ~lockToBoundaries
           /\ drag # NoDrag /\ drag.last = "other"
           /\ onMouseMove(pt))
              => /\ position' =
                      Pos(RAdd(drag.start.x,
                               RSub(getMousePosition(pt).x, drag.p0.x)),
                          RAdd(drag.start.y,
                               RSub(getMousePosition(pt).y, drag.p0.y)))
                 /\ position' = Pos(RSub(getMousePosition(pt).x, offset.x),
                                    RSub(getMousePosition(pt).y, offset.y))
                 /\ scale' = scale]_vars

\* a drag armed at the initial position, a call that changed the scale, and
\* a pointerMove to another point: the position is the initial one shifted
\* by p1 - p0 and the scale is the one the call wrote
C37_Witness ==
    /\ attached /\ ~lockToBoundaries
    /\ budget = MaxInterleaveSteps - 3
    /\ drag # NoDrag
    /\ drag.last = "move"
    /\ drag.start = IPos(-4, -2)
    /\ drag.p1 # drag.p0
    /\ scale # One
    /\ position = Pos(RAdd(drag.start.x, RSub(drag.p1.x, drag.p0.x)),
                      RAdd(drag.start.y, RSub(drag.p1.y, drag.p0.y)))

----------------------------------------------------------------------------
(* C38.  The claim: every pinch move that changes scale or position leaves *)
(* the content strictly larger than the frame on both axes, whether        *)
(* lockToBoundaries is on or off; consequently a pinch never takes zoom's  *)
(* fitToViewer fallback (the scale it writes is the one it asked zoom      *)
(* for), and when the content cannot be made larger than the frame within  *)
(* [minScale, maxScale] no pinch move changes anything.                    *)
C38_PinchKeepsContentLarger ==
    [][\A t \in TouchLists :
          (isPinchGesture(t) /\ onTouchMove(t)) =>
              /\ (position' # position \/ scale' # scale) =>
                    /\ LargerThanFrame(scale')
                    /\ ~zoomFallsBack(Here, PinchTarget(t), scale)
                    /\ scale' = PinchTarget(t)
              /\ ~LargerThanFrame(maxScale) => UNCHANGED <<position, scale>>]_vars

\* a pinch that opened from distance 4 to distance 5 over content narrower
\* than the frame at scale 1, with lockToBoundaries on
C38_Witness ==
    /\ attached /\ lockToBoundaries /\ pinch = "moved"
    /\ content = [w |-> 10, h |-> 20]
    /\ scale = <<5, 4>> /\ lastDistance = Int2R(5)

====
